---- MODULE Spec2Model ----
(***************************************************************************)
(* Operator construction, symmetry reduction and result decoding of the    *)
(* lattice protein folding pipeline.                                       *)
(*                                                                         *)
(* Three components are modelled, each with its own specification:         *)
(*   SpecDecode   ResultInterpreter.__init__ and the methods it calls      *)
(*   SpecContact  ContactMap.__init__ / _initialize_contact_map            *)
(*   SpecFix      utils.qubit_utils.fix_qubits applied to an operator      *)
(*                                                                         *)
(* Bit strings are sequences over {0, 1}; index 1 of a sequence is Python  *)
(* index 0.  Coordinates are integers in units of FCC_EDGE_LENGTH          *)
(* (1/sqrt(3)).  Operator coefficients are exact rationals <<num, den>>.   *)
(***************************************************************************)
EXTENDS Integers, Sequences, FiniteSets, TLC

VARIABLES
    \* ---- configuration and protein (constants.py, Protein) ----
    conformation_encoding,   \* CONFORMATION_ENCODING (its value is QUBITS_PER_TURN)
    main_chain,              \* symbols of protein.main_chain.beads
    side_chain,              \* symbols of protein.side_chain.beads
    \* ---- ResultInterpreter ----
    best_measurement,        \* raw_vqe_results.best_measurement
    bitstring,               \* self._vqe_output.bitstring
    processed_bitstring,     \* self._processed_bitstring
    turn_sequence,           \* self._turn_sequence
    coordinates_3d,          \* self._coordinates_3d
    contacts_found,          \* self._main_main_contacts_detected
    error,                   \* exception that ended __init__, or "none"
    pc,                      \* position inside ResultInterpreter.__init__
    \* ---- ContactMap ----
    main_main_contacts,      \* self.main_main_contacts
    contacts_detected,       \* self.contacts_detected
    lower_bead_idx,          \* outer loop variable of _initialize_contact_map
    upper_bead_idx,          \* inner loop variable of _initialize_contact_map
    cm_pc,                   \* position inside ContactMap.__init__
    \* ---- fix_qubits ----
    operator,                \* the operator handed to fix_qubits
    has_side_chain_second_bead,
    fixed,                   \* the operators returned by successive fix_qubits calls
    \* ---- a single call of a utility, a turn accessor or a constructor ----
    called,                  \* the function called, or "none"
    q_operator,              \* second operator argument
    scalar,                  \* scalar argument
    target,                  \* integer argument (target width, padding width)
    bead_index,              \* index of the bead whose turn functions are read
    main_protein_sequence,   \* argument of Protein.__init__
    side_protein_sequence,   \* argument of Protein.__init__
    outcome,                 \* what the call returned or raised
    \* ---- MJInteraction, DistanceMap, HamiltonianBuilder ----
    energy_pairs,            \* interaction._energy_pairs
    distance_map,            \* distance_map._distance_map
    pair_index,              \* position in the (i, j) loop of _build_backbone_contact_term
    h_backbone,              \* h_backbone of _build_backbone_contact_term
    h_backtrack,             \* h_backtrack of sum_hamiltonians
    hamiltonian,             \* hamiltonian of build_and_compress_hamiltonian
    compressed_h,            \* compressed_h of build_and_compress_hamiltonian
    build_pc                 \* position inside setup and build_and_compress_hamiltonian

proteinVars == <<conformation_encoding, main_chain, side_chain>>
decVars == <<best_measurement, bitstring, processed_bitstring, turn_sequence,
             coordinates_3d, contacts_found, error, pc>>
cmVars == <<main_main_contacts, contacts_detected, lower_bead_idx, upper_bead_idx, cm_pc>>
fixVars == <<operator, has_side_chain_second_bead, fixed>>
callVars == <<called, q_operator, scalar, target, bead_index,
              main_protein_sequence, side_protein_sequence, outcome>>
buildVars == <<energy_pairs, distance_map, pair_index, h_backbone, h_backtrack,
               hamiltonian, compressed_h, build_pc>>
vars == <<proteinVars, decVars, cmVars, fixVars, callVars, buildVars>>

(***************************************************************************)
(* Bounds of the model                                                     *)
(***************************************************************************)
MaxN == 8          \* longest main chain
MaxBits == 11      \* longest measurement bitstring
MaxQubits == 7     \* widest operator handed to fix_qubits
MaxTerms == 2      \* most terms of an operator handed to fix_qubits
MaxPad == 2        \* most identity wires tensored onto an operator

(***************************************************************************)
(* constants.py, enums.py                                                  *)
(***************************************************************************)
DENSE == 2
SPARSE == 4
MIN_CHAIN_LENGTH == 5
MIN_DISTANCE_BETWEEN_CONTACTS == 5
SIDE_CHAIN_FIFTH_POSITION_INDEX == 4
SIGN_FLIP_SECOND_QUBIT_INDEX == 1
SIGN_FLIP_SIXTH_QUBIT_INDEX == 5
MAIN_CHAIN_FIFTH_FIXED_POSITION == 5
MAIN_CHAIN_FIXED_POSITIONS == <<0, 1, 2, 3, 5>>
EMPTY_SIDECHAIN_PLACEHOLDER == "_"
NORM_FACTOR == <<1, 2>>
IDENTITY_OP_COEFF == <<1, 1>>

QUBITS_PER_TURN(encoding) == encoding

TurnDirection == 0..3

DENSE_TURN_INDICATORS ==
    [d \in TurnDirection |->
        CASE d = 0 -> <<0, 0>>
          [] d = 1 -> <<0, 1>>
          [] d = 2 -> <<1, 0>>
          [] d = 3 -> <<1, 1>>]

SPARSE_TURN_INDICATORS ==
    [d \in TurnDirection |->
        CASE d = 0 -> <<0, 0, 0, 1>>
          [] d = 1 -> <<0, 0, 1, 0>>
          [] d = 2 -> <<0, 1, 0, 0>>
          [] d = 3 -> <<1, 0, 0, 0>>]

\* FCC_BASIS / FCC_EDGE_LENGTH; index d+1 is basis vector d
FCC_BASIS == << <<-1, 1, 1>>, <<1, 1, -1>>, <<-1, -1, -1>>, <<1, -1, 1>> >>

(***************************************************************************)
(* Python sequence helpers                                                 *)
(***************************************************************************)
\* s[::-1]
Reversed(s) == [i \in 1..Len(s) |-> s[Len(s) + 1 - i]]

\* s[-k:] for k >= 0 (s[-0:] is the whole of s)
LastSlice(s, k) ==
    IF k = 0 \/ k >= Len(s) THEN s ELSE SubSeq(s, Len(s) - k + 1, Len(s))

\* s[:-k] for k >= 0 (s[:-0] is empty)
ButLastSlice(s, k) ==
    IF k = 0 \/ k >= Len(s) THEN <<>> ELSE SubSeq(s, 1, Len(s) - k)

BitStrings(n) == [1..n -> {0, 1}]

(***************************************************************************)
(* ResultInterpreter                                                       *)
(***************************************************************************)
NoMeasurement == [present |-> FALSE]

\* ResultInterpreter.__init__: self._fifth_bead_has_no_sidechain
fifth_bead_has_no_sidechain(side) ==
    /\ Len(side) >= SIDE_CHAIN_FIFTH_POSITION_INDEX + 1
    /\ side[SIDE_CHAIN_FIFTH_POSITION_INDEX + 1] = EMPTY_SIDECHAIN_PLACEHOLDER

\* ResultInterpreter.__init__: self._turn_encoding
turn_encoding(encoding) ==
    IF encoding = DENSE THEN DENSE_TURN_INDICATORS ELSE SPARSE_TURN_INDICATORS

get_target_sequence_length_main_chain(encoding, main, side) ==
    QUBITS_PER_TURN(encoding) * (Len(main) - 3)
        - (IF encoding = DENSE /\ fifth_bead_has_no_sidechain(side) THEN 1 ELSE 0)

\* mutant: the two fixed turns are appended in the other order
preprocess_bitstring_fixed_turns_swapped(bits, encoding, main, side) ==
    LET target_bitstring_length == get_target_sequence_length_main_chain(encoding, main, side)
        trimmed == LastSlice(bits, target_bitstring_length)
        result_bitstring ==
            trimmed \o Reversed(turn_encoding(encoding)[1])
                    \o Reversed(turn_encoding(encoding)[0])
        with_fifth ==
            IF fifth_bead_has_no_sidechain(side)
            THEN ButLastSlice(result_bitstring, SIDE_CHAIN_FIFTH_POSITION_INDEX + 1)
                    \o <<1>>
                    \o LastSlice(result_bitstring, SIDE_CHAIN_FIFTH_POSITION_INDEX + 1)
            ELSE result_bitstring
    IN  IF encoding = SPARSE THEN Reversed(result_bitstring) ELSE Reversed(with_fifth)

\* mutant: the fifth-position bit is inserted one place further right
preprocess_bitstring_insert_off_by_one(bits, encoding, main, side) ==
    LET target_bitstring_length == get_target_sequence_length_main_chain(encoding, main, side)
        trimmed == LastSlice(bits, target_bitstring_length)
        result_bitstring ==
            trimmed \o Reversed(turn_encoding(encoding)[0])
                    \o Reversed(turn_encoding(encoding)[1])
        with_fifth ==
            IF fifth_bead_has_no_sidechain(side)
            THEN ButLastSlice(result_bitstring, SIDE_CHAIN_FIFTH_POSITION_INDEX)
                    \o <<1>>
                    \o LastSlice(result_bitstring, SIDE_CHAIN_FIFTH_POSITION_INDEX)
            ELSE result_bitstring
    IN  IF encoding = SPARSE THEN Reversed(result_bitstring) ELSE Reversed(with_fifth)

preprocess_bitstring(bits, encoding, main, side) ==
    LET target_bitstring_length == get_target_sequence_length_main_chain(encoding, main, side)
        trimmed == LastSlice(bits, target_bitstring_length)
        result_bitstring ==
            trimmed \o Reversed(turn_encoding(encoding)[0])
                    \o Reversed(turn_encoding(encoding)[1])
        with_fifth ==
            IF fifth_bead_has_no_sidechain(side)
            THEN ButLastSlice(result_bitstring, SIDE_CHAIN_FIFTH_POSITION_INDEX + 1)
                    \o <<1>>
                    \o LastSlice(result_bitstring, SIDE_CHAIN_FIFTH_POSITION_INDEX + 1)
            ELSE result_bitstring
    IN  IF encoding = SPARSE THEN Reversed(result_bitstring) ELSE Reversed(with_fifth)

\* the list "turns" of _generate_turn_sequence and _generate_3d_coordinates
turn_groups(processed, encoding) ==
    LET q == QUBITS_PER_TURN(encoding)
    IN  [i \in 1..(Len(processed) \div q) |-> SubSeq(processed, (i - 1) * q + 1, i * q)]

\* the dict bitstring_to_direction
known_turn(group, encoding) == \E d \in TurnDirection : turn_encoding(encoding)[d] = group
bitstring_to_direction(group, encoding) ==
    CHOOSE d \in TurnDirection : turn_encoding(encoding)[d] = group

\* _generate_turn_sequence: the returned list, or the exception raised
generate_turn_sequence(processed, encoding) ==
    LET turns == turn_groups(processed, encoding)
    IN  IF \E i \in 1..Len(turns) : ~known_turn(turns[i], encoding)
        THEN [error |-> "ConformationEncodingError", value |-> <<>>]
        ELSE [error |-> "none",
              value |-> [i \in 1..Len(turns) |-> bitstring_to_direction(turns[i], encoding)]]

BeadPosition(index, symbol, pos) ==
    [index |-> index, symbol |-> symbol, x |-> pos[1], y |-> pos[2], z |-> pos[3]]

\* (-1) ** i
MinusOnePow(i) == IF i % 2 = 0 THEN 1 ELSE -1

\* mutant: the sign does not alternate with the step index
direction_vec_no_alternation(i, dir_idx) ==
    [a \in 1..3 |-> FCC_BASIS[dir_idx + 1][a]]

\* direction_vec = ((-1) ** i) * tetrahedral_basis_vector[dir_idx]
direction_vec(i, dir_idx) ==
    [a \in 1..3 |-> MinusOnePow(i) * FCC_BASIS[dir_idx + 1][a]]

\* the for loop of _generate_3d_coordinates over zip(turns, main_chain_symbols[1:]);
\* i is the 0-based loop index
RECURSIVE walk_turns(_, _, _, _, _, _)
walk_turns(turns, symbols, encoding, i, current_pos, coords) ==
    IF i >= Len(turns) \/ i >= Len(symbols) - 1
    THEN [error |-> IF Len(turns) = Len(symbols) - 1 THEN "none" ELSE "ValueError",
          value |-> coords]
    ELSE IF ~known_turn(turns[i + 1], encoding)
    THEN [error |-> "ConformationEncodingError", value |-> coords]
    ELSE LET dir_idx == bitstring_to_direction(turns[i + 1], encoding)
             vec == direction_vec(i, dir_idx)
             new_pos == [a \in 1..3 |-> current_pos[a] + vec[a]]
         IN  walk_turns(turns, symbols, encoding, i + 1, new_pos,
                        Append(coords, BeadPosition(Len(coords), symbols[i + 2], new_pos)))

\* mutant: zip without strict=True, the shorter of the two lists ends the walk
generate_3d_coordinates_zip_not_strict(processed, encoding, main) ==
    LET r == walk_turns(turn_groups(processed, encoding), main, encoding, 0, <<0, 0, 0>>,
                        <<BeadPosition(0, main[1], <<0, 0, 0>>)>>)
    IN  [error |-> IF r.error = "ValueError" THEN "none" ELSE r.error, value |-> r.value]

generate_3d_coordinates(processed, encoding, main) ==
    walk_turns(turn_groups(processed, encoding), main, encoding, 0, <<0, 0, 0>>,
               <<BeadPosition(0, main[1], <<0, 0, 0>>)>>)

\* contacts[i] = j on a dict
DictSet(dict, key, value) == (key :> value) @@ dict

\* inner loop of _find_main_main_contacts: for j in range(i + 5, num_beads, 2)
RECURSIVE contacts_inner(_, _, _, _, _, _)
contacts_inner(interaction_bits, num_beads, i, j, qubit_index, contacts) ==
    IF j >= num_beads
    THEN [qubit_index |-> qubit_index, contacts |-> contacts]
    ELSE IF qubit_index >= Len(interaction_bits)
    THEN [qubit_index |-> qubit_index, contacts |-> contacts]
    ELSE contacts_inner(interaction_bits, num_beads, i, j + 2, qubit_index + 1,
                        IF interaction_bits[qubit_index + 1] = 1
                        THEN DictSet(contacts, i, j)
                        ELSE contacts)

\* outer loop of _find_main_main_contacts: for i in range(num_beads - 5)
RECURSIVE contacts_outer(_, _, _, _, _)
contacts_outer(interaction_bits, num_beads, i, qubit_index, contacts) ==
    IF i >= num_beads - 5
    THEN contacts
    ELSE LET r == contacts_inner(interaction_bits, num_beads, i, i + 5, qubit_index, contacts)
         IN  IF r.qubit_index >= Len(interaction_bits)
             THEN r.contacts
             ELSE contacts_outer(interaction_bits, num_beads, i + 1, r.qubit_index, r.contacts)

find_main_main_contacts(raw_bitstring, encoding, main, side) ==
    LET num_shape_qubits == get_target_sequence_length_main_chain(encoding, main, side)
        interaction_bits == ButLastSlice(raw_bitstring, num_shape_qubits)
    IN  contacts_outer(interaction_bits, Len(main), 0, 0, <<>>)

(***************************************************************************)
(* Exact rational coefficients <<num, den>>, den > 0, in lowest terms      *)
(***************************************************************************)
Abs(a) == IF a < 0 THEN -a ELSE a

RECURSIVE GCD(_, _)
GCD(a, b) == IF b = 0 THEN a ELSE GCD(b, a % b)

RatNorm(num, den) ==
    LET g == GCD(Abs(num), den)
    IN  IF num >= 0 THEN <<num \div g, den \div g>> ELSE <<-(Abs(num) \div g), den \div g>>

RatAdd(a, b) == RatNorm(a[1] * b[2] + b[1] * a[2], a[2] * b[2])
RatMul(a, b) == RatNorm(a[1] * b[1], a[2] * b[2])
RatNeg(a) == <<-a[1], a[2]>>
RatZero == <<0, 1>>
RatOne == <<1, 1>>

(***************************************************************************)
(* qiskit.quantum_info.SparsePauliOp as the program uses it: an operator   *)
(* is [num_qubits, terms], a term is [z, x, coeff] with z and x the sets   *)
(* of wires whose Z bit and X bit are set.                                 *)
(***************************************************************************)
Term(z, x, coeff) == [z |-> z, x |-> x, coeff |-> coeff]
Op(num_qubits, terms) == [num_qubits |-> num_qubits, terms |-> terms]

SameKey(s, t) == s.z = t.z /\ s.x = t.x

\* sum of the coefficients of the terms lo..hi whose position is in idx
RECURSIVE RatSumBetween(_, _, _, _)
RatSumBetween(terms, idx, lo, hi) ==
    IF lo > hi THEN RatZero
    ELSE IF lo = hi THEN (IF lo \in idx THEN terms[lo].coeff ELSE RatZero)
    ELSE LET mid == (lo + hi) \div 2
         IN  RatAdd(RatSumBetween(terms, idx, lo, mid),
                    RatSumBetween(terms, idx, mid + 1, hi))

RatSumOver(terms, idx) == RatSumBetween(terms, idx, 1, Len(terms))

\* SparsePauliOp.simplify: drop zero coefficients, sum the coefficients of equal
\* Pauli strings (kept at their first position), drop sums that are zero; an
\* operator left with no term becomes the identity string with coefficient 0
simplify(op) ==
    LET nz == SelectSeq(op.terms, LAMBDA t : t.coeff[1] # 0)
        positions == [i \in 1..Len(nz) |-> i]
        total(i) == RatSumOver(nz, {j \in 1..Len(nz) : SameKey(nz[j], nz[i])})
        first(i) == \A j \in 1..(i - 1) : ~SameKey(nz[j], nz[i])
        keep == SelectSeq(positions, LAMBDA i : first(i) /\ total(i)[1] # 0)
    IN  IF keep = <<>>
        THEN Op(op.num_qubits, <<Term({}, {}, RatZero)>>)
        ELSE Op(op.num_qubits,
                [k \in 1..Len(keep) |-> Term(nz[keep[k]].z, nz[keep[k]].x, total(keep[k]))])

\* a + b
op_add(a, b) == Op(a.num_qubits, a.terms \o b.terms)

\* s * a
op_scale(s, a) ==
    Op(a.num_qubits,
       [i \in 1..Len(a.terms) |-> Term(a.terms[i].z, a.terms[i].x, RatMul(s, a.terms[i].coeff))])

\* a - b
op_sub(a, b) == op_add(a, op_scale(RatNeg(RatOne), b))

SymDiff(s, t) == (s \ t) \cup (t \ s)

\* a @ b for operators whose terms carry no X bit (every operator the builders
\* below produce): Z strings multiply wire by wire without a phase
op_compose(a, b) ==
    LET la == Len(a.terms)
        lb == Len(b.terms)
    IN  Op(a.num_qubits,
           [k \in 1..(la * lb) |->
               LET s == a.terms[((k - 1) \div lb) + 1]
                   t == b.terms[((k - 1) % lb) + 1]
               IN  Term(SymDiff(s.z, t.z), SymDiff(s.x, t.x), RatMul(s.coeff, t.coeff))])

\* the terms of an operator as a coefficient table (order of the terms dropped)
TermSet(op) == {op.terms[i] : i \in 1..Len(op.terms)}
OpEquals(a, b) == a.num_qubits = b.num_qubits /\ TermSet(a) = TermSet(b)

(***************************************************************************)
(* utils/qubit_utils.py                                                    *)
(***************************************************************************)
\* identity_string = "I" * num_qubits: a non-positive count gives the empty label
build_identity_op(num_qubits, coeff) ==
    Op(IF num_qubits > 0 THEN num_qubits ELSE 0, <<Term({}, {}, coeff)>>)

build_turn_qubit(z_index, num_qubits) ==
    LET z_operator == Op(num_qubits, <<Term({z_index}, {}, RatOne)>>)
        full_identity == build_identity_op(num_qubits, IDENTITY_OP_COEFF)
    IN  op_scale(NORM_FACTOR, op_sub(full_identity, z_operator))

\* mutant: the second sign rule reads wire 5 of six-wire tables as well
calc_updated_coeffs_width_six(table_z, length, coeff, has_side) ==
    LET c1 == IF length > SIGN_FLIP_SECOND_QUBIT_INDEX
                 /\ SIGN_FLIP_SECOND_QUBIT_INDEX \in table_z
              THEN RatNeg(coeff) ELSE coeff
    IN  IF ~has_side /\ length > SIGN_FLIP_SIXTH_QUBIT_INDEX
                     /\ SIGN_FLIP_SIXTH_QUBIT_INDEX \in table_z
        THEN RatNeg(c1) ELSE c1

\* table_z is the set of wires whose Z bit is set, length its number of wires
calc_updated_coeffs(table_z, length, coeff, has_side) ==
    LET c1 == IF length > SIGN_FLIP_SECOND_QUBIT_INDEX
                 /\ SIGN_FLIP_SECOND_QUBIT_INDEX \in table_z
              THEN RatNeg(coeff) ELSE coeff
    IN  IF ~has_side /\ length > SIGN_FLIP_SIXTH_QUBIT_INDEX + 1
                     /\ SIGN_FLIP_SIXTH_QUBIT_INDEX \in table_z
        THEN RatNeg(c1) ELSE c1

\* mutant: the bounds test leaves the last wire alone
preset_single_binary_val_skips_last(table_z, length, index) ==
    IF index < length - 1 THEN table_z \ {index} ELSE table_z

preset_single_binary_val(table_z, length, index) ==
    IF index < length THEN table_z \ {index} ELSE table_z

\* the list main_beads_indices of _preset_binary_vals
main_beads_indices(has_side) ==
    IF ~has_side
    THEN Append(MAIN_CHAIN_FIXED_POSITIONS, MAIN_CHAIN_FIFTH_FIXED_POSITION)
    ELSE MAIN_CHAIN_FIXED_POSITIONS

RECURSIVE preset_loop(_, _, _, _)
preset_loop(table_z, length, indices, k) ==
    IF k > Len(indices) THEN table_z
    ELSE preset_loop(preset_single_binary_val(table_z, length, indices[k]),
                     length, indices, k + 1)

preset_binary_vals(table_z, length, has_side) ==
    preset_loop(table_z, length, main_beads_indices(has_side), 1)

\* mutant: the sign rules are applied to single-term operators too
fix_qubits_always_negates(op, has_side) ==
    simplify(Op(op.num_qubits,
                [i \in 1..Len(op.terms) |->
                    Term(preset_binary_vals(op.terms[i].z, op.num_qubits, has_side),
                         op.terms[i].x,
                         calc_updated_coeffs(op.terms[i].z, op.num_qubits,
                                             op.terms[i].coeff, has_side))]))

\* mutant: operators of two terms take the single-term branch as well
fix_qubits_shortcut_up_to_two_terms(op, has_side) ==
    IF Len(op.terms) <= 2
    THEN simplify(Op(op.num_qubits,
                     [i \in 1..Len(op.terms) |->
                         Term(preset_binary_vals(op.terms[i].z, op.num_qubits, has_side),
                              op.terms[i].x, op.terms[i].coeff)]))
    ELSE simplify(Op(op.num_qubits,
                     [i \in 1..Len(op.terms) |->
                         Term(preset_binary_vals(op.terms[i].z, op.num_qubits, has_side),
                              op.terms[i].x,
                              calc_updated_coeffs(op.terms[i].z, op.num_qubits,
                                                  op.terms[i].coeff, has_side))]))

\* mutant: the single-term branch leaves the Z table as it is
fix_qubits_single_term_kept(op, has_side) ==
    IF Len(op.terms) = 1
    THEN simplify(op)
    ELSE simplify(Op(op.num_qubits,
                     [i \in 1..Len(op.terms) |->
                         Term(preset_binary_vals(op.terms[i].z, op.num_qubits, has_side),
                              op.terms[i].x,
                              calc_updated_coeffs(op.terms[i].z, op.num_qubits,
                                                  op.terms[i].coeff, has_side))]))

fix_qubits(op, has_side) ==
    IF Len(op.terms) = 1
    THEN simplify(Op(op.num_qubits,
                     <<Term(preset_binary_vals(op.terms[1].z, op.num_qubits, has_side),
                            op.terms[1].x, op.terms[1].coeff)>>))
    ELSE simplify(Op(op.num_qubits,
                     [i \in 1..Len(op.terms) |->
                         Term(preset_binary_vals(op.terms[i].z, op.num_qubits, has_side),
                              op.terms[i].x,
                              calc_updated_coeffs(op.terms[i].z, op.num_qubits,
                                                  op.terms[i].coeff, has_side))]))

\* mutant: the first operand takes the low wires
op_tensor_first_operand_low(a, b) ==
    LET la == Len(a.terms)
        lb == Len(b.terms)
        raise(z) == {w + a.num_qubits : w \in z}
    IN  Op(a.num_qubits + b.num_qubits,
           [k \in 1..(la * lb) |->
               LET s == a.terms[((k - 1) \div lb) + 1]
                   t == b.terms[((k - 1) % lb) + 1]
               IN  Term(s.z \cup raise(t.z), s.x \cup raise(t.x), RatMul(s.coeff, t.coeff))])

\* a ^ b (SparsePauliOp.tensor): b on the low wires, a above them
op_tensor(a, b) ==
    LET la == Len(a.terms)
        lb == Len(b.terms)
        raise(z) == {w + b.num_qubits : w \in z}
    IN  Op(a.num_qubits + b.num_qubits,
           [k \in 1..(la * lb) |->
               LET s == a.terms[((k - 1) \div lb) + 1]
                   t == b.terms[((k - 1) % lb) + 1]
               IN  Term(raise(s.z) \cup t.z, raise(s.x) \cup t.x, RatMul(s.coeff, t.coeff))])

\* the elements of a set of integers as an ascending list
Ascending(S) ==
    [i \in 1..Cardinality(S) |-> CHOOSE w \in S : Cardinality({v \in S : v < w}) = i - 1]

\* used_mask = np.any(op.paulis.z, axis=0)
used_mask(op) == {w \in 0..(op.num_qubits - 1) : \E i \in 1..Len(op.terms) : w \in op.terms[i].z}

find_unused_qubits(op) ==
    IF op.num_qubits = 0 \/ Len(op.terms) = 0
    THEN <<>>
    ELSE Ascending((0..(op.num_qubits - 1)) \ used_mask(op))

\* z_full[k][mask]: the columns of the kept wires, renumbered from 0 in their order
masked(bits, kept) == {Cardinality({v \in kept : v < w}) : w \in bits \cap kept}

remove_unused_qubits(op) ==
    LET unused == find_unused_qubits(op)
        kept == (0..(op.num_qubits - 1)) \ {unused[i] : i \in 1..Len(unused)}
    IN  IF unused = <<>>
        THEN op
        ELSE simplify(Op(Cardinality(kept),
                         [k \in 1..Len(op.terms) |->
                             Term(masked(op.terms[k].z, kept), masked(op.terms[k].x, kept),
                                  op.terms[k].coeff)]))

\* mutant: the identity wires are put below the operator's wires
pad_to_n_qubits_identity_low(op, width) ==
    IF op.num_qubits = width
    THEN op
    ELSE op_tensor(op, build_identity_op(width - op.num_qubits, IDENTITY_OP_COEFF))

\* pad_to_n_qubits, op.num_qubits defined: id_pad ^ op
pad_to_n_qubits(op, width) ==
    IF op.num_qubits = width
    THEN op
    ELSE op_tensor(build_identity_op(width - op.num_qubits, IDENTITY_OP_COEFF), op)

(***************************************************************************)
(* protein/bead/bead.py, protein/bead/main_bead.py                         *)
(***************************************************************************)
A == 0
B == 1
\* mutant: sublattices alternate in pairs of beads
sublattice_in_pairs(index) == IF (index \div 2) % 2 = 1 THEN B ELSE A

\* Bead.__init__: self.sublattice
sublattice(index) == IF index % 2 = 1 THEN B ELSE A

\* Bead.__init__: self._num_turn_qubits, self._has_turn_qubits
num_turn_qubits(parent_chain_len, encoding) ==
    (parent_chain_len - 1) * QUBITS_PER_TURN(encoding)
has_turn_qubits(index, parent_chain_len) == index # parent_chain_len - 1

\* Bead._initialize_turn_qubits: self.turn_qubits (index i+1 is turn_qubits[i])
turn_qubits(index, parent_chain_len, encoding) ==
    IF has_turn_qubits(index, parent_chain_len)
    THEN [i \in 1..QUBITS_PER_TURN(encoding) |->
             build_turn_qubit(QUBITS_PER_TURN(encoding) * index + (i - 1),
                              num_turn_qubits(parent_chain_len, encoding))]
    ELSE <<>>

bead_full_identity(parent_chain_len, encoding) ==
    build_identity_op(num_turn_qubits(parent_chain_len, encoding), IDENTITY_OP_COEFF)

\* mutant: direction 0 keeps only its first factor
dense_turn_fun_0_first_factor_only(index, parent_chain_len) ==
    LET q == turn_qubits(index, parent_chain_len, DENSE)
        id == bead_full_identity(parent_chain_len, DENSE)
    IN  simplify(op_sub(id, q[1]))

\* mutant: direction 1 is the second turn qubit alone
dense_turn_fun_1_second_qubit_only(index, parent_chain_len) ==
    turn_qubits(index, parent_chain_len, DENSE)[2]

dense_turn_fun_0(index, parent_chain_len) ==
    LET q == turn_qubits(index, parent_chain_len, DENSE)
        id == bead_full_identity(parent_chain_len, DENSE)
    IN  simplify(op_compose(op_sub(id, q[1]), op_sub(id, q[2])))

dense_turn_fun_1(index, parent_chain_len) ==
    LET q == turn_qubits(index, parent_chain_len, DENSE)
    IN  simplify(op_compose(q[2], op_sub(q[2], q[1])))

dense_turn_fun_2(index, parent_chain_len) ==
    LET q == turn_qubits(index, parent_chain_len, DENSE)
    IN  simplify(op_compose(q[1], op_sub(q[1], q[2])))

dense_turn_fun_3(index, parent_chain_len) ==
    LET q == turn_qubits(index, parent_chain_len, DENSE)
    IN  simplify(op_compose(q[1], q[2]))

\* MainBead.turn_0 .. turn_3, selected by direction
turn_func(direction, index, parent_chain_len, encoding) ==
    IF encoding = SPARSE
    THEN turn_qubits(index, parent_chain_len, encoding)[direction + 1]
    ELSE CASE direction = 0 -> dense_turn_fun_0(index, parent_chain_len)
           [] direction = 1 -> dense_turn_fun_1(index, parent_chain_len)
           [] direction = 2 -> dense_turn_fun_2(index, parent_chain_len)
           [] direction = 3 -> dense_turn_fun_3(index, parent_chain_len)

\* Bead.turn_funcs: None for a bead without turn qubits
NoTurnFuncs == <<>>
turn_funcs(index, parent_chain_len, encoding) ==
    IF ~has_turn_qubits(index, parent_chain_len)
    THEN NoTurnFuncs
    ELSE [d \in 1..4 |-> turn_func(d - 1, index, parent_chain_len, encoding)]

\* value of a diagonal operator on the basis state whose wire k holds bits[k]
\* (Z on a wire holding 1 contributes the factor -1)
RECURSIVE ZParity(_, _)
ZParity(z, bits) ==
    IF z = {} THEN 1
    ELSE LET k == CHOOSE w \in z : TRUE
         IN  (IF bits[k] = 1 THEN -1 ELSE 1) * ZParity(z \ {k}, bits)

\* value of the terms lo..hi
RECURSIVE EvalBetween(_, _, _, _)
EvalBetween(op, bits, lo, hi) ==
    IF lo > hi THEN RatZero
    ELSE IF lo = hi
    THEN RatMul(<<ZParity(op.terms[lo].z, bits), 1>>, op.terms[lo].coeff)
    ELSE LET mid == (lo + hi) \div 2
         IN  RatAdd(EvalBetween(op, bits, lo, mid), EvalBetween(op, bits, mid + 1, hi))

EvalOp(op, bits) == EvalBetween(op, bits, 1, Len(op.terms))

(***************************************************************************)
(* contact/contact_map.py                                                  *)
(***************************************************************************)
num_contact_qubits(main) == (Len(main) - 1) * (Len(main) - 1)

build_pauli_z_operator(num_qubits, pauli_z_indices) ==
    Op(num_qubits, <<Term(pauli_z_indices, {}, RatOne)>>)

convert_to_qubits(pauli_op) ==
    op_scale(NORM_FACTOR,
             op_sub(Op(pauli_op.num_qubits, <<Term({}, {}, RatOne)>>), pauli_op))

create_main_main_contact(main, upper, lower) ==
    LET z_op_index == lower * (Len(main) - 1) + upper
    IN  convert_to_qubits(build_pauli_z_operator(num_contact_qubits(main), {z_op_index}))

(***************************************************************************)
(* Inputs                                                                  *)
(***************************************************************************)
\* residues the main sequences are drawn from (scenario sequence APRLR...)
Residues == <<"A", "P", "R", "L", "R", "F", "Y", "V", "W", "K", "H", "G">>

MainSequences(n) == {SubSeq(Residues, 1, n)}

\* side sequences: all placeholders, or a real side bead on the fifth bead
SideSequences(n) ==
    {[i \in 1..n |-> EMPTY_SIDECHAIN_PLACEHOLDER],
     [i \in 1..n |-> IF i = SIDE_CHAIN_FIFTH_POSITION_INDEX + 1
                     THEN "A" ELSE EMPTY_SIDECHAIN_PLACEHOLDER]}

ChainLengths == MIN_CHAIN_LENGTH..MaxN

AllPlaceholders(side) == \A i \in 1..Len(side) : side[i] = EMPTY_SIDECHAIN_PLACEHOLDER

\* best_measurement: absent, or carrying a bitstring of n characters
Measurements(n) ==
    {NoMeasurement} \cup {[present |-> TRUE, bitstring |-> b] : b \in BitStrings(n)}

ProteinInit ==
    /\ conformation_encoding \in {DENSE, SPARSE}
    /\ \E n \in ChainLengths :
          /\ main_chain \in MainSequences(n)
          /\ side_chain \in SideSequences(n)

DecIdle ==
    /\ best_measurement = NoMeasurement
    /\ bitstring = <<>>
    /\ processed_bitstring = <<>>
    /\ turn_sequence = <<>>
    /\ coordinates_3d = <<>>
    /\ contacts_found = <<>>
    /\ error = "none"
    /\ pc = "idle"

CmIdle ==
    /\ main_main_contacts = <<>>
    /\ contacts_detected = 0
    /\ lower_bead_idx = 0
    /\ upper_bead_idx = 0
    /\ cm_pc = "idle"

FixIdle ==
    /\ operator = <<>>
    /\ has_side_chain_second_bead = FALSE
    /\ fixed = <<>>

BuildIdle ==
    /\ energy_pairs = <<>>
    /\ distance_map = <<>>
    /\ pair_index = 0
    /\ h_backbone = <<>>
    /\ h_backtrack = <<>>
    /\ hamiltonian = <<>>
    /\ compressed_h = <<>>
    /\ build_pc = "idle"

\* outcome of a call that has not been made yet
Pending == [status |-> "pending"]

CallIdle ==
    /\ called = "none"
    /\ q_operator = <<>>
    /\ scalar = 0
    /\ target = 0
    /\ bead_index = 0
    /\ main_protein_sequence = <<>>
    /\ side_protein_sequence = <<>>
    /\ outcome = Pending

(***************************************************************************)
(* SpecDecode: ResultInterpreter.__init__                                  *)
(***************************************************************************)
DecodeInit ==
    /\ ProteinInit
    /\ get_target_sequence_length_main_chain(conformation_encoding, main_chain, side_chain)
          <= MaxBits
    /\ \E n \in 0..MaxBits : best_measurement \in Measurements(n)
    /\ bitstring = <<>>
    /\ processed_bitstring = <<>>
    /\ turn_sequence = <<>>
    /\ coordinates_3d = <<>>
    /\ contacts_found = <<>>
    /\ error = "none"
    /\ pc = "interpret"
    /\ CmIdle
    /\ FixIdle
    /\ CallIdle
    /\ BuildIdle

\* self._vqe_output = self._interpret_raw_vqe_results()
InterpretRawVqeResults ==
    /\ pc = "interpret"
    /\ IF ~best_measurement.present
       THEN /\ error' = "ValueError"
            /\ pc' = "failed"
            /\ UNCHANGED bitstring
       ELSE /\ bitstring' = best_measurement.bitstring
            /\ pc' = "preprocess"
            /\ UNCHANGED error
    /\ UNCHANGED <<best_measurement, processed_bitstring, turn_sequence,
                   coordinates_3d, contacts_found>>
    /\ UNCHANGED <<proteinVars, cmVars, fixVars, callVars, buildVars>>

\* self._processed_bitstring = self._preprocess_bitstring(bitstring=...)
PreprocessBitstring ==
    /\ pc = "preprocess"
    /\ processed_bitstring' =
          preprocess_bitstring(bitstring, conformation_encoding, main_chain, side_chain)
    /\ pc' = "turns"
    /\ UNCHANGED <<best_measurement, bitstring, turn_sequence, coordinates_3d,
                   contacts_found, error>>
    /\ UNCHANGED <<proteinVars, cmVars, fixVars, callVars, buildVars>>

\* self._turn_sequence = self._generate_turn_sequence()
GenerateTurnSequence ==
    /\ pc = "turns"
    /\ LET r == generate_turn_sequence(processed_bitstring, conformation_encoding)
       IN  /\ turn_sequence' = r.value
           /\ error' = r.error
           /\ pc' = IF r.error = "none" THEN "coordinates" ELSE "failed"
    /\ UNCHANGED <<best_measurement, bitstring, processed_bitstring, coordinates_3d,
                   contacts_found>>
    /\ UNCHANGED <<proteinVars, cmVars, fixVars, callVars, buildVars>>

\* self._coordinates_3d = self._generate_3d_coordinates()
Generate3dCoordinates ==
    /\ pc = "coordinates"
    /\ LET r == generate_3d_coordinates(processed_bitstring, conformation_encoding, main_chain)
       IN  /\ coordinates_3d' = IF r.error = "none" THEN r.value ELSE <<>>
           /\ error' = r.error
           /\ pc' = IF r.error = "none" THEN "contacts" ELSE "failed"
    /\ UNCHANGED <<best_measurement, bitstring, processed_bitstring, turn_sequence,
                   contacts_found>>
    /\ UNCHANGED <<proteinVars, cmVars, fixVars, callVars, buildVars>>

\* self._main_main_contacts_detected = self._find_main_main_contacts()
FindMainMainContacts ==
    /\ pc = "contacts"
    /\ contacts_found' =
          find_main_main_contacts(bitstring, conformation_encoding, main_chain, side_chain)
    /\ pc' = "done"
    /\ UNCHANGED <<best_measurement, bitstring, processed_bitstring, turn_sequence,
                   coordinates_3d, error>>
    /\ UNCHANGED <<proteinVars, cmVars, fixVars, callVars, buildVars>>

DecodeNext ==
    \/ InterpretRawVqeResults
    \/ PreprocessBitstring
    \/ GenerateTurnSequence
    \/ Generate3dCoordinates
    \/ FindMainMainContacts

SpecDecode == DecodeInit /\ [][DecodeNext]_vars

(***************************************************************************)
(* SpecContact: ContactMap.__init__ / _initialize_contact_map, one step    *)
(* per iteration of the inner loop                                         *)
(***************************************************************************)
ContactInit ==
    /\ ProteinInit
    /\ main_main_contacts = <<>>
    /\ contacts_detected = 0
    /\ lower_bead_idx = 0
    /\ upper_bead_idx = 2
    /\ cm_pc = "loop"
    /\ DecIdle
    /\ FixIdle
    /\ CallIdle
    /\ BuildIdle

\* mutant: the separation is counted in beads spanned, both ends and one more
insufficient_separation_counts_beads(upper, lower) ==
    Abs(upper - lower) + 2 < MIN_DISTANCE_BETWEEN_CONTACTS

\* abs(upper_bead.index - lower_bead.index) < MIN_DISTANCE_BETWEEN_CONTACTS
insufficient_separation(upper, lower) ==
    Abs(upper - lower) < MIN_DISTANCE_BETWEEN_CONTACTS

\* mutant: the inner range stops one bead short of the end of the chain
NextIteration_stops_short ==
    IF upper_bead_idx + 1 < Len(main_chain) - 1
    THEN /\ upper_bead_idx' = upper_bead_idx + 1
         /\ UNCHANGED lower_bead_idx
         /\ cm_pc' = "loop"
    ELSE /\ lower_bead_idx' = lower_bead_idx + 1
         /\ upper_bead_idx' = lower_bead_idx + 3
         /\ cm_pc' = IF lower_bead_idx + 1 < Len(main_chain) - 2 THEN "loop" ELSE "done"

\* the next (lower_bead_idx, upper_bead_idx) of
\*   for lower_bead_idx in range(main_chain_length - 2):
\*       for upper_bead_idx in range(lower_bead_idx + 2, main_chain_length):
NextIteration ==
    IF upper_bead_idx + 1 < Len(main_chain)
    THEN /\ upper_bead_idx' = upper_bead_idx + 1
         /\ UNCHANGED lower_bead_idx
         /\ cm_pc' = "loop"
    ELSE /\ lower_bead_idx' = lower_bead_idx + 1
         /\ upper_bead_idx' = lower_bead_idx + 3
         /\ cm_pc' = IF lower_bead_idx + 1 < Len(main_chain) - 2 THEN "loop" ELSE "done"

SkipSameSublattice ==
    /\ cm_pc = "loop"
    /\ sublattice(upper_bead_idx) = sublattice(lower_bead_idx)
    /\ NextIteration
    /\ UNCHANGED <<main_main_contacts, contacts_detected>>
    /\ UNCHANGED <<proteinVars, decVars, fixVars, callVars, buildVars>>

SkipInsufficientSeparation ==
    /\ cm_pc = "loop"
    /\ sublattice(upper_bead_idx) # sublattice(lower_bead_idx)
    /\ insufficient_separation(upper_bead_idx, lower_bead_idx)
    /\ NextIteration
    /\ UNCHANGED <<main_main_contacts, contacts_detected>>
    /\ UNCHANGED <<proteinVars, decVars, fixVars, callVars, buildVars>>

RecordContact ==
    /\ cm_pc = "loop"
    /\ sublattice(upper_bead_idx) # sublattice(lower_bead_idx)
    /\ ~insufficient_separation(upper_bead_idx, lower_bead_idx)
    /\ main_main_contacts' =
          DictSet(main_main_contacts, <<lower_bead_idx, upper_bead_idx>>,
                  create_main_main_contact(main_chain, upper_bead_idx, lower_bead_idx))
    /\ contacts_detected' = contacts_detected + 1
    /\ NextIteration
    /\ UNCHANGED <<proteinVars, decVars, fixVars, callVars, buildVars>>

ContactNext ==
    \/ SkipSameSublattice
    \/ SkipInsufficientSeparation
    \/ RecordContact

SpecContact == ContactInit /\ [][ContactNext]_vars

(***************************************************************************)
(* SpecFix: fix_qubits applied to an operator, and again to its result     *)
(***************************************************************************)
ZMasks(n) ==
    {z \in {{}, {0}, {1}, {5}, {1, 5}, {n - 1}, {1, n - 1}} : z \subseteq 0..(n - 1)}
XMasks(n) == {x \in {{}, {1}} : x \subseteq 0..(n - 1)}
Coefficients == {<<1, 1>>, <<-1, 1>>}

TermPool(n) ==
    {Term(z, x, c) : z \in ZMasks(n), x \in XMasks(n), c \in Coefficients}

\* operators of k terms on n wires
Operators(n, k) == {Op(n, terms) : terms \in [1..k -> TermPool(n)]}

FixInit ==
    /\ \E n \in 1..MaxQubits, k \in 1..MaxTerms : operator \in Operators(n, k)
    /\ has_side_chain_second_bead \in BOOLEAN
    /\ fixed = <<>>
    /\ conformation_encoding = DENSE
    /\ main_chain = <<>>
    /\ side_chain = <<>>
    /\ DecIdle
    /\ CmIdle
    /\ CallIdle
    /\ BuildIdle

\* fixed = fix_qubits(operator), then fixed = fix_qubits(fixed)
FixQubits ==
    /\ Len(fixed) < 2
    /\ fixed' = Append(fixed,
                       fix_qubits(IF fixed = <<>> THEN operator ELSE fixed[Len(fixed)],
                                  has_side_chain_second_bead))
    /\ UNCHANGED <<operator, has_side_chain_second_bead>>
    /\ UNCHANGED <<proteinVars, decVars, cmVars, callVars, buildVars>>

FixNext == FixQubits

SpecFix == FixInit /\ [][FixNext]_vars

(***************************************************************************)
(* SpecLinear: fix_qubits against the sum of two operators and against a   *)
(* scalar multiple of one                                                  *)
(***************************************************************************)
\* Z masks on the wires the sign rules read
SignRuleZMasks(n) ==
    {z \in {{}, {SIGN_FLIP_SECOND_QUBIT_INDEX}, {SIGN_FLIP_SIXTH_QUBIT_INDEX}} :
        z \subseteq 0..(n - 1)}

\* operators of k Z-only terms on n wires, coefficients drawn from coeffs
ZOperators(n, k, coeffs) ==
    {Op(n, terms) :
        terms \in [1..k -> {Term(z, {}, c) : z \in SignRuleZMasks(n), c \in coeffs}]}

Scalars == {<<-1, 1>>, <<0, 1>>, <<2, 1>>}

LinearInit ==
    /\ \E n \in 1..MaxQubits :
          /\ \E k \in 1..MaxTerms : operator \in ZOperators(n, k, Coefficients)
          /\ \/ /\ called = "fix_sum"
                /\ \E k \in 1..MaxTerms : q_operator \in ZOperators(n, k, {RatOne})
                /\ scalar = RatOne
             \/ /\ called = "fix_scaled"
                /\ q_operator = <<>>
                /\ scalar \in Scalars
    /\ has_side_chain_second_bead \in BOOLEAN
    /\ fixed = <<>>
    /\ target = 0
    /\ bead_index = 0
    /\ main_protein_sequence = <<>>
    /\ side_protein_sequence = <<>>
    /\ outcome = Pending
    /\ conformation_encoding = DENSE
    /\ main_chain = <<>>
    /\ side_chain = <<>>
    /\ DecIdle
    /\ CmIdle
    /\ BuildIdle

\* fix_qubits(p + q) and fix_qubits(p) + fix_qubits(q)
FixSum ==
    /\ called = "fix_sum"
    /\ outcome = Pending
    /\ outcome' =
          [status |-> "returned",
           of_sum |-> fix_qubits(op_add(operator, q_operator), has_side_chain_second_bead),
           sum_of |-> op_add(fix_qubits(operator, has_side_chain_second_bead),
                             fix_qubits(q_operator, has_side_chain_second_bead))]
    /\ UNCHANGED <<called, q_operator, scalar, target, bead_index,
                   main_protein_sequence, side_protein_sequence>>
    /\ UNCHANGED <<proteinVars, decVars, cmVars, fixVars, buildVars>>

\* fix_qubits(s * p) and s * fix_qubits(p)
FixScaled ==
    /\ called = "fix_scaled"
    /\ outcome = Pending
    /\ outcome' =
          [status |-> "returned",
           of_scaled |-> fix_qubits(op_scale(scalar, operator), has_side_chain_second_bead),
           scaled_of |-> op_scale(scalar, fix_qubits(operator, has_side_chain_second_bead))]
    /\ UNCHANGED <<called, q_operator, scalar, target, bead_index,
                   main_protein_sequence, side_protein_sequence>>
    /\ UNCHANGED <<proteinVars, decVars, cmVars, fixVars, buildVars>>

LinearNext ==
    \/ FixSum
    \/ FixScaled

SpecLinear == LinearInit /\ [][LinearNext]_vars

(***************************************************************************)
(* SpecUnused: find_unused_qubits and remove_unused_qubits on an operator, *)
(* and remove_unused_qubits on the operator tensored with an identity      *)
(***************************************************************************)
HalfAndOne == {<<1, 1>>, <<1, 2>>}

UnusedTermPool(n) ==
    {Term(z, x, c) : z \in {m \in {{}, {0}, {2}, {n - 1}} : m \subseteq 0..(n - 1)},
                     x \in {{}, {0}},
                     c \in HalfAndOne}

PadWidths == 0..MaxPad

UnusedInit ==
    /\ \E n \in 1..MaxQubits, k \in 1..MaxTerms :
          operator \in {Op(n, terms) : terms \in [1..k -> UnusedTermPool(n)]}
    /\ \/ called \in {"find_unused_qubits", "remove_unused_qubits"} /\ target = 0
       \/ called = "remove_unused_of_tensor" /\ target \in PadWidths
    /\ q_operator = <<>>
    /\ scalar = 0
    /\ has_side_chain_second_bead = FALSE
    /\ fixed = <<>>
    /\ bead_index = 0
    /\ main_protein_sequence = <<>>
    /\ side_protein_sequence = <<>>
    /\ outcome = Pending
    /\ conformation_encoding = DENSE
    /\ main_chain = <<>>
    /\ side_chain = <<>>
    /\ DecIdle
    /\ CmIdle
    /\ BuildIdle

FindUnusedQubits ==
    /\ called = "find_unused_qubits"
    /\ outcome = Pending
    /\ outcome' = [status |-> "returned", value |-> find_unused_qubits(operator)]
    /\ UNCHANGED <<called, q_operator, scalar, target, bead_index,
                   main_protein_sequence, side_protein_sequence>>
    /\ UNCHANGED <<proteinVars, decVars, cmVars, fixVars, buildVars>>

RemoveUnusedQubits ==
    /\ called = "remove_unused_qubits"
    /\ outcome = Pending
    /\ outcome' = [status |-> "returned", value |-> remove_unused_qubits(operator)]
    /\ UNCHANGED <<called, q_operator, scalar, target, bead_index,
                   main_protein_sequence, side_protein_sequence>>
    /\ UNCHANGED <<proteinVars, decVars, cmVars, fixVars, buildVars>>

\* p tensor identity(k): p above k identity wires (p itself for k = 0)
TensorIdentity(op, k) ==
    IF k = 0 THEN op ELSE op_tensor(op, build_identity_op(k, IDENTITY_OP_COEFF))

RemoveUnusedOfTensor ==
    /\ called = "remove_unused_of_tensor"
    /\ outcome = Pending
    /\ outcome' = [status |-> "returned",
                   value |-> remove_unused_qubits(TensorIdentity(operator, target))]
    /\ UNCHANGED <<called, q_operator, scalar, target, bead_index,
                   main_protein_sequence, side_protein_sequence>>
    /\ UNCHANGED <<proteinVars, decVars, cmVars, fixVars, buildVars>>

UnusedNext ==
    \/ FindUnusedQubits
    \/ RemoveUnusedQubits
    \/ RemoveUnusedOfTensor

SpecUnused == UnusedInit /\ [][UnusedNext]_vars

(***************************************************************************)
(* SpecPad: pad_to_n_qubits on an operator and a target width              *)
(***************************************************************************)
PadTermPool(n) ==
    {Term(z, x, c) : z \in {{}, {0}, {n - 1}}, x \in {{}, {n - 1}}, c \in HalfAndOne}

PadInit ==
    /\ \E n \in 1..MaxQubits :
          /\ \E k \in 1..MaxTerms :
                operator \in {Op(n, terms) : terms \in [1..k -> PadTermPool(n)]}
          /\ target \in 0..(n + MaxPad)
    /\ called = "pad_to_n_qubits"
    /\ q_operator = <<>>
    /\ scalar = 0
    /\ has_side_chain_second_bead = FALSE
    /\ fixed = <<>>
    /\ bead_index = 0
    /\ main_protein_sequence = <<>>
    /\ side_protein_sequence = <<>>
    /\ outcome = Pending
    /\ conformation_encoding = DENSE
    /\ main_chain = <<>>
    /\ side_chain = <<>>
    /\ DecIdle
    /\ CmIdle
    /\ BuildIdle

\* what pad_to_n_qubits(op, target) gives.  For a target below op.num_qubits the
\* function makes no check of its own and hands the empty label to
\* SparsePauliOp.from_list: the library either builds the identity on no wire,
\* and the tensor product is then op on its own wires, or it rejects the label.
PadOutcomes(op, width) ==
    IF width < op.num_qubits
    THEN {[status |-> "returned", value |-> pad_to_n_qubits(op, width)],
          [status |-> "raised", error |-> "QiskitError"]}
    ELSE {[status |-> "returned", value |-> pad_to_n_qubits(op, width)]}

PadToNQubits ==
    /\ called = "pad_to_n_qubits"
    /\ outcome = Pending
    /\ outcome' \in PadOutcomes(operator, target)
    /\ UNCHANGED <<called, q_operator, scalar, target, bead_index,
                   main_protein_sequence, side_protein_sequence>>
    /\ UNCHANGED <<proteinVars, decVars, cmVars, fixVars, buildVars>>

PadNext == PadToNQubits

SpecPad == PadInit /\ [][PadNext]_vars

(***************************************************************************)
(* protein/protein.py: Protein.__init__, and SpecProtein, one construction *)
(***************************************************************************)
\* valid_symbols as the interaction model hands it over
valid_symbols == {Residues[i] : i \in 1..Len(Residues)}

Symbols(sequence) == {sequence[i] : i \in 1..Len(sequence)}

\* set(main_protein_sequence + side_protein_sequence.replace(placeholder, ""))
concatenated_sequence_symbols(main, side) ==
    Symbols(main) \cup (Symbols(side) \ {EMPTY_SIDECHAIN_PLACEHOLDER})

\* _MainChain(...) then _SideChain(...): a side bead that is no placeholder
\* cannot be built (_SideBead.__init__ raises NotImplementedError), and by then
\* the main chain has been built
build_chains(main, side) ==
    IF Symbols(side) \subseteq {EMPTY_SIDECHAIN_PLACEHOLDER}
    THEN [outcome |-> [status |-> "returned"], main_chain |-> main, side_chain |-> side]
    ELSE [outcome |-> [status |-> "raised", error |-> "NotImplementedError"],
          main_chain |-> main, side_chain |-> <<>>]

Raises(exception) ==
    [outcome |-> [status |-> "raised", error |-> exception], main_chain |-> <<>>, side_chain |-> <<>>]

\* mutant: the lengths are checked before the symbols
Protein_init_lengths_first(main, side, valid) ==
    IF Len(main) # Len(side)
    THEN Raises("ChainLengthError")
    ELSE IF Len(main) < MIN_CHAIN_LENGTH \/ Len(side) < MIN_CHAIN_LENGTH
    THEN Raises("ChainLengthError")
    ELSE IF ~(concatenated_sequence_symbols(main, side) \subseteq valid)
    THEN Raises("UnsupportedAminoAcidSymbolError")
    ELSE build_chains(main, side)

\* Protein.__init__
Protein_init(main, side, valid) ==
    IF ~(concatenated_sequence_symbols(main, side) \subseteq valid)
    THEN Raises("UnsupportedAminoAcidSymbolError")
    ELSE IF Len(main) # Len(side)
    THEN Raises("ChainLengthError")
    ELSE IF Len(main) < MIN_CHAIN_LENGTH \/ Len(side) < MIN_CHAIN_LENGTH
    THEN Raises("ChainLengthError")
    ELSE build_chains(main, side)

\* sequences of n symbols: base everywhere, or one position holding another symbol
SequencesAround(n, base, others) ==
    {[i \in 1..n |-> base]}
      \cup {[i \in 1..n |-> IF i = at THEN s ELSE base] : at \in 1..n, s \in others}

ArgumentLengths == (MIN_CHAIN_LENGTH - 1)..(MIN_CHAIN_LENGTH + 1)

NewProteinInit ==
    /\ \E n \in ArgumentLengths :
          main_protein_sequence \in SequencesAround(n, "A", {"X", EMPTY_SIDECHAIN_PLACEHOLDER})
    /\ \E n \in ArgumentLengths :
          side_protein_sequence \in SequencesAround(n, EMPTY_SIDECHAIN_PLACEHOLDER, {"A", "X"})
    /\ called = "Protein"
    /\ conformation_encoding \in {DENSE, SPARSE}
    /\ main_chain = <<>>
    /\ side_chain = <<>>
    /\ operator = <<>>
    /\ q_operator = <<>>
    /\ scalar = 0
    /\ target = 0
    /\ bead_index = 0
    /\ has_side_chain_second_bead = FALSE
    /\ fixed = <<>>
    /\ outcome = Pending
    /\ DecIdle
    /\ CmIdle
    /\ BuildIdle

NewProtein ==
    /\ called = "Protein"
    /\ outcome = Pending
    /\ LET made == Protein_init(main_protein_sequence, side_protein_sequence, valid_symbols)
       IN  /\ outcome' = made.outcome
           /\ main_chain' = made.main_chain
           /\ side_chain' = made.side_chain
    /\ UNCHANGED <<called, q_operator, scalar, target, bead_index,
                   main_protein_sequence, side_protein_sequence>>
    /\ UNCHANGED <<conformation_encoding, decVars, cmVars, fixVars, buildVars>>

NewProteinNext == NewProtein

SpecProtein == NewProteinInit /\ [][NewProteinNext]_vars

(***************************************************************************)
(* builder/hamiltonian_builder.py, the loops over pairs of beads           *)
(***************************************************************************)
\* a set of pairs as the list two nested ascending loops run through
InLoopOrder(pairs) ==
    [k \in 1..Cardinality(pairs) |->
        CHOOSE p \in pairs :
            Cardinality({q \in pairs : q[1] < p[1] \/ (q[1] = p[1] /\ q[2] < p[2])}) = k - 1]

\* mutant: the inner loop starts one bead earlier
backbone_pairs_from_three(chain_len) ==
    InLoopOrder({p \in (0..(chain_len - 5)) \X (0..(chain_len - 1)) :
                    p[2] >= p[1] + 3 /\ (p[2] - p[1]) % 2 # 0})

\* _build_backbone_contact_term: for i in range(len - 4): for j in range(i + 4, len):
\* the pairs that pass "if (j - i) % 2 == 0: continue"
backbone_pairs(chain_len) ==
    InLoopOrder({p \in (0..(chain_len - 5)) \X (0..(chain_len - 1)) :
                    p[2] >= p[1] + 4 /\ (p[2] - p[1]) % 2 # 0})

\* _find_main_main_contacts: for i in range(num_beads - 5):
\*                              for j in range(i + 5, num_beads, 2)
decoder_pairs(num_beads) ==
    InLoopOrder({p \in (0..(num_beads - 6)) \X (0..(num_beads - 1)) :
                    \E step \in 0..num_beads : p[2] = p[1] + 5 + 2 * step})

(***************************************************************************)
(* distance/distance_map.py                                                *)
(***************************************************************************)
EMPTY_OP_COEFF == <<0, 1>>
DIST_VECTOR_AXES == 4
BOUNDING_CONSTANT == 7
MJ_ENERGY_MULTIPLIER == <<1, 10>>
OVERLAP_PENALTY == 10
BACK_PENALTY == 10

\* start += ops[1]; start += ops[2]; ...
RECURSIVE op_sum(_, _)
op_sum(start, ops) ==
    IF ops = <<>> THEN start ELSE op_sum(op_add(start, Head(ops)), Tail(ops))

\* the beads k in range(lower, upper) that have turn functions
BeadsBetween(lower, upper, chain_len) ==
    SelectSeq([k \in 1..(upper - lower) |-> lower + k - 1],
              LAMBDA k : has_turn_qubits(k, chain_len))

\* axes_vector[axis_idx] of _calc_distances_main_chain after its fix_qubits
axes_vector(axis_idx, lower, upper, chain_len, encoding) ==
    LET beads == BeadsBetween(lower, upper, chain_len)
    IN  fix_qubits(
            op_sum(build_identity_op(num_turn_qubits(chain_len, encoding), EMPTY_OP_COEFF),
                   [b \in 1..Len(beads) |->
                       op_scale(<<MinusOnePow(beads[b]), 1>>,
                                turn_func(axis_idx, beads[b], chain_len, encoding))]),
            FALSE)

\* self._distance_map[lower_bead_idx][upper_bead_idx]
calc_distance(lower, upper, chain_len, encoding) ==
    fix_qubits(
        op_sum(build_identity_op(num_turn_qubits(chain_len, encoding), EMPTY_OP_COEFF),
               [a \in 1..DIST_VECTOR_AXES |->
                   LET axis == axes_vector(a - 1, lower, upper, chain_len, encoding)
                   IN  op_compose(axis, axis)]),
        FALSE)

\* _calc_distances_main_chain: the map over every lower < upper
calc_distances_main_chain(chain_len, encoding) ==
    [p \in {q \in (0..(chain_len - 1)) \X (0..(chain_len - 1)) : q[1] < q[2]} |->
        calc_distance(p[1], p[2], chain_len, encoding)]

(***************************************************************************)
(* builder/hamiltonian_builder.py                                          *)
(***************************************************************************)
\* MJInteraction.get_energy: key = f"{symbol_i}{symbol_j}"; self._energy_pairs[key]
get_energy(energies, symbol_i, symbol_j) == energies[<<symbol_i, symbol_j>>]

get_first_neighbor_hamiltonian(lower, upper, lambda_1, main, distances, energies) ==
    LET lambda_0 == <<BOUNDING_CONSTANT * (upper - lower + 1) * lambda_1, 1>>
        energy == get_energy(energies, main[lower + 1], main[upper + 1])
        x == distances[<<lower, upper>>]
        id == build_identity_op(x.num_qubits, IDENTITY_OP_COEFF)
    IN  fix_qubits(op_add(op_scale(lambda_0, op_sub(x, id)),
                          op_scale(RatMul(MJ_ENERGY_MULTIPLIER, energy), id)),
                   FALSE)

get_second_neighbor_hamiltonian(lower, upper, lambda_1, main, distances, energies) ==
    LET energy == get_energy(energies, main[lower + 1], main[upper + 1])
        x == distances[<<lower, upper>>]
        id == build_identity_op(x.num_qubits, IDENTITY_OP_COEFF)
    IN  fix_qubits(op_add(op_scale(<<lambda_1, 1>>, op_sub(op_scale(<<2, 1>>, id), x)),
                          op_scale(RatMul(MJ_ENERGY_MULTIPLIER, energy), id)),
                   FALSE)

\* the shifts of the second-neighbour loop that stay inside the chain
second_neighbors(i, j, chain_len) ==
    SelectSeq(<< <<i - 1, j>>, <<i + 1, j>>, <<i, j - 1>>, <<i, j + 1>> >>,
              LAMBDA q : 0 <= q[1] /\ q[1] < chain_len /\ 0 <= q[2] /\ q[2] < chain_len)

\* one pass of the inner loop body of _build_backbone_contact_term for (i, j)
backbone_step(acc, i, j, main, contacts, distances, energies) ==
    LET first == op_tensor(contacts[<<i, j>>],
                           get_first_neighbor_hamiltonian(i, j, OVERLAP_PENALTY, main,
                                                          distances, energies))
        shifts == second_neighbors(i, j, Len(main))
        second == [k \in 1..Len(shifts) |->
                     op_tensor(contacts[<<i, j>>],
                               get_second_neighbor_hamiltonian(shifts[k][1], shifts[k][2],
                                                               OVERLAP_PENALTY, main,
                                                               distances, energies))]
    IN  fix_qubits(op_sum(op_add(acc, first), second), FALSE)

\* HamiltonianBuilder.get_turn_operators
get_turn_operators(lower, upper, chain_len, encoding) ==
    LET lower_turn_funcs == turn_funcs(lower, chain_len, encoding)
        upper_turn_funcs == turn_funcs(upper, chain_len, encoding)
        empty == build_identity_op(num_turn_qubits(chain_len, encoding), EMPTY_OP_COEFF)
    IN  IF lower_turn_funcs = NoTurnFuncs \/ upper_turn_funcs = NoTurnFuncs
        THEN empty
        ELSE fix_qubits(op_sum(empty,
                               [a \in 1..4 |->
                                   op_compose(lower_turn_funcs[a], upper_turn_funcs[a])]),
                        FALSE)

\* mutant: the loop leaves out the last pair of neighbouring beads
add_backtracking_penalty_stops_short(chain_len, encoding) ==
    fix_qubits(
        op_sum(build_identity_op(num_turn_qubits(chain_len, encoding), EMPTY_OP_COEFF),
               [i \in 1..(chain_len - 4) |->
                   op_scale(<<BACK_PENALTY, 1>>,
                            get_turn_operators(i, i + 1, chain_len, encoding))]),
        FALSE)

\* _add_backtracking_penalty: for i in range(1, len(main_chain) - 2)
add_backtracking_penalty(chain_len, encoding) ==
    fix_qubits(
        op_sum(build_identity_op(num_turn_qubits(chain_len, encoding), EMPTY_OP_COEFF),
               [i \in 1..(chain_len - 3) |->
                   op_scale(<<BACK_PENALTY, 1>>,
                            get_turn_operators(i, i + 1, chain_len, encoding))]),
        FALSE)

\* mutant: the backtracking term is left out of the sum
sum_parts_backbone_only(backbone, backtrack) ==
    simplify(op_add(build_identity_op(backbone.num_qubits, EMPTY_OP_COEFF), backbone))

\* sum_hamiltonians from its two parts on
sum_parts(backbone, backtrack) ==
    LET target_qubits == IF backbone.num_qubits >= backtrack.num_qubits
                         THEN backbone.num_qubits ELSE backtrack.num_qubits
    IN  simplify(op_sum(build_identity_op(target_qubits, EMPTY_OP_COEFF),
                        <<pad_to_n_qubits(backbone, target_qubits),
                          pad_to_n_qubits(backtrack, target_qubits)>>))

(***************************************************************************)
(* SpecBuild: setup_folding_system and build_and_compress_hamiltonian for  *)
(* a protein without side beads: ContactMap, DistanceMap, then             *)
(* sum_hamiltonians (one step per pair of the backbone loop) and           *)
(* remove_unused_qubits                                                    *)
(***************************************************************************)
MaxBuildN == 7     \* longest main chain a Hamiltonian is built for

\* energies the loaded matrix may hold (the matrix file is data, an input here)
Energies == {<<-1, 1>>, <<-5, 2>>}

\* self._energy_pairs: symmetric, one energy for equal and one for different residues
EnergyTables ==
    {[p \in valid_symbols \X valid_symbols |-> IF p[1] = p[2] THEN e[1] ELSE e[2]] :
        e \in {q \in Energies \X Energies : q[1] # q[2]}}

BuildInit ==
    /\ ProteinInit
    /\ Len(main_chain) <= MaxBuildN
    /\ AllPlaceholders(side_chain)
    /\ main_main_contacts = <<>>
    /\ contacts_detected = 0
    /\ lower_bead_idx = 0
    /\ upper_bead_idx = 2
    /\ cm_pc = "loop"
    /\ energy_pairs \in EnergyTables
    /\ distance_map = <<>>
    /\ pair_index = 0
    /\ h_backbone = <<>>
    /\ h_backtrack = <<>>
    /\ hamiltonian = <<>>
    /\ compressed_h = <<>>
    /\ build_pc = "setup"
    /\ DecIdle
    /\ FixIdle
    /\ CallIdle

\* distance_map = DistanceMap(protein=protein), after contact_map = ContactMap(...)
CalcDistancesMainChain ==
    /\ build_pc = "setup"
    /\ cm_pc = "done"
    /\ distance_map' = calc_distances_main_chain(Len(main_chain), conformation_encoding)
    /\ build_pc' = "backbone"
    /\ pair_index' = 1
    /\ h_backbone' =
          build_identity_op((Len(main_chain) - 1) * (Len(main_chain) - 1)
                              + (Len(main_chain) - 1) * QUBITS_PER_TURN(conformation_encoding),
                            EMPTY_OP_COEFF)
    /\ UNCHANGED <<energy_pairs, h_backtrack, hamiltonian, compressed_h>>
    /\ UNCHANGED <<proteinVars, decVars, cmVars, fixVars, callVars>>

\* one pass of the body of the (i, j) loop of _build_backbone_contact_term
BackbonePair ==
    /\ build_pc = "backbone"
    /\ pair_index <= Len(backbone_pairs(Len(main_chain)))
    /\ LET pair == backbone_pairs(Len(main_chain))[pair_index]
       IN  h_backbone' = backbone_step(h_backbone, pair[1], pair[2], main_chain,
                                       main_main_contacts, distance_map, energy_pairs)
    /\ pair_index' = pair_index + 1
    /\ UNCHANGED <<energy_pairs, distance_map, h_backtrack, hamiltonian, compressed_h,
                   build_pc>>
    /\ UNCHANGED <<proteinVars, decVars, cmVars, fixVars, callVars>>

\* h_backtrack = self._add_backtracking_penalty()
AddBacktrackingPenalty ==
    /\ build_pc = "backbone"
    /\ pair_index > Len(backbone_pairs(Len(main_chain)))
    /\ h_backtrack' = add_backtracking_penalty(Len(main_chain), conformation_encoding)
    /\ build_pc' = "sum"
    /\ UNCHANGED <<energy_pairs, distance_map, pair_index, h_backbone, hamiltonian,
                   compressed_h>>
    /\ UNCHANGED <<proteinVars, decVars, cmVars, fixVars, callVars>>

\* the padding and the sum of sum_hamiltonians
SumHamiltonians ==
    /\ build_pc = "sum"
    /\ hamiltonian' = sum_parts(h_backbone, h_backtrack)
    /\ build_pc' = "compress"
    /\ UNCHANGED <<energy_pairs, distance_map, pair_index, h_backbone, h_backtrack,
                   compressed_h>>
    /\ UNCHANGED <<proteinVars, decVars, cmVars, fixVars, callVars>>

\* compressed_h = remove_unused_qubits(hamiltonian)
CompressHamiltonian ==
    /\ build_pc = "compress"
    /\ compressed_h' = remove_unused_qubits(hamiltonian)
    /\ build_pc' = "done"
    /\ UNCHANGED <<energy_pairs, distance_map, pair_index, h_backbone, h_backtrack,
                   hamiltonian>>
    /\ UNCHANGED <<proteinVars, decVars, cmVars, fixVars, callVars>>

BuildNext ==
    \/ SkipSameSublattice
    \/ SkipInsufficientSeparation
    \/ RecordContact
    \/ CalcDistancesMainChain
    \/ BackbonePair
    \/ AddBacktrackingPenalty
    \/ SumHamiltonians
    \/ CompressHamiltonian

SpecBuild == BuildInit /\ [][BuildNext]_vars

(***************************************************************************)
(* SpecTurns: the turn functions of one bead of the main chain             *)
(***************************************************************************)
TurnsInit ==
    /\ ProteinInit
    /\ bead_index \in 0..(Len(main_chain) - 1)
    /\ called = "turn_funcs"
    /\ operator = <<>>
    /\ q_operator = <<>>
    /\ scalar = 0
    /\ target = 0
    /\ has_side_chain_second_bead = FALSE
    /\ fixed = <<>>
    /\ main_protein_sequence = <<>>
    /\ side_protein_sequence = <<>>
    /\ outcome = Pending
    /\ DecIdle
    /\ CmIdle
    /\ BuildIdle

TurnFuncs ==
    /\ called = "turn_funcs"
    /\ outcome = Pending
    /\ outcome' = [status |-> "returned",
                   value |-> turn_funcs(bead_index, Len(main_chain), conformation_encoding)]
    /\ UNCHANGED <<called, q_operator, scalar, target, bead_index,
                   main_protein_sequence, side_protein_sequence>>
    /\ UNCHANGED <<proteinVars, decVars, cmVars, fixVars, buildVars>>

TurnsNext == TurnFuncs

SpecTurns == TurnsInit /\ [][TurnsNext]_vars

(***************************************************************************)
(* The encoder's side of a measurement: the turn register as fix_qubits    *)
(* leaves it                                                               *)
(***************************************************************************)

\* wires whose Z bit fix_qubits clears on a register of n wires
FixedWires(n, has_side) ==
    {w \in 0..(n - 1) : preset_binary_vals({w}, n, has_side) = {}}

\* the value fix_qubits gives a fixed wire: Z -> -1 is the bit 1, Z -> +1 the bit 0
FixedBit(w, n, has_side) ==
    IF calc_updated_coeffs({w}, n, RatOne, has_side) = RatNeg(RatOne) THEN 1 ELSE 0

FreeWires(n, has_side) == (0..(n - 1)) \ FixedWires(n, has_side)

\* the register assignment a bitstring of the free wires stands for: the free
\* wires in ascending order occupy the string from its right end
RegisterOf(bits, n, has_side) ==
    [w \in 0..(n - 1) |->
        IF w \in FixedWires(n, has_side)
        THEN FixedBit(w, n, has_side)
        ELSE bits[Len(bits) - Cardinality({v \in FreeWires(n, has_side) : v < w})]]

\* directions whose turn function is 1 on the register, for bead index k
DirectionsOn(register, k, chain_len, encoding) ==
    {a \in TurnDirection :
        EvalOp(turn_func(a, k, chain_len, encoding), register) = RatOne}

\* every non-terminal bead has exactly one turn function equal to 1
OneTurnPerBead(register, chain_len, encoding) ==
    \A k \in 0..(chain_len - 2) :
        Cardinality(DirectionsOn(register, k, chain_len, encoding)) = 1

\* the turn sequence t the register encodes
EncodedTurns(register, chain_len, encoding) ==
    [i \in 1..(chain_len - 1) |->
        CHOOSE a \in TurnDirection :
            a \in DirectionsOn(register, i - 1, chain_len, encoding)]

TurnsDecoded == pc \in {"coordinates", "contacts", "done"}
DecodeEnded == pc \in {"done", "failed"}

\* the measurement holds exactly the free turn wires of an all-placeholder protein,
\* and the register it stands for is a valid conformation
IsEncodedConformation ==
    /\ best_measurement.present
    /\ AllPlaceholders(side_chain)
    /\ LET n == num_turn_qubits(Len(main_chain), conformation_encoding)
       IN  /\ Len(best_measurement.bitstring) = Cardinality(FreeWires(n, FALSE))
           /\ OneTurnPerBead(RegisterOf(best_measurement.bitstring, n, FALSE),
                             Len(main_chain), conformation_encoding)

TurnsOfMeasurement ==
    EncodedTurns(RegisterOf(best_measurement.bitstring,
                            num_turn_qubits(Len(main_chain), conformation_encoding), FALSE),
                 Len(main_chain), conformation_encoding)

(***************************************************************************)
(* Claims                                                                  *)
(***************************************************************************)

\* C1 (as claimed): in both encodings, decoding the bitstring of the free turn
\* wires of a valid register (fixed wires at the values fix_qubits substitutes:
\* wire 1 = 1, wire 5 = 1, wires 0, 2, 3 = 0) succeeds and returns exactly the
\* turn sequence the register encodes.
C1_RoundTripBothEncodings ==
    (DecodeEnded /\ IsEncodedConformation)
        => (pc = "done" /\ turn_sequence = TurnsOfMeasurement)

\* C1 restricted to the dense encoding (the round trip the decoder does achieve)
C1_RoundTripDense ==
    (DecodeEnded /\ conformation_encoding = DENSE /\ IsEncodedConformation)
        => (pc = "done" /\ turn_sequence = TurnsOfMeasurement)

TargetLength ==
    get_target_sequence_length_main_chain(conformation_encoding, main_chain, side_chain)

\* C2 (as claimed): every bitstring of at least L bits that decodes without error
\* gives a turn sequence that begins with DIR_0 followed by DIR_1.
C2_BeginsDir0Dir1 ==
    (pc = "done" /\ Len(bitstring) >= TargetLength)
        => (turn_sequence[1] = 0 /\ turn_sequence[2] = 1)

\* C2 (amended): every bitstring of at least L bits that decodes without error
\* gives a turn sequence that begins with DIR_1 followed by DIR_0; sparse N = 5
\* with shape bits decoding to (DIR_2, DIR_3) gives (DIR_1, DIR_0, DIR_2, DIR_3).
C2_BeginsDir1Dir0 ==
    (pc = "done" /\ Len(bitstring) >= TargetLength)
        => /\ turn_sequence[1] = 1 /\ turn_sequence[2] = 0
           /\ (conformation_encoding = SPARSE /\ Len(main_chain) = 5
                 /\ LastSlice(bitstring, 8) = <<0, 0, 0, 1, 0, 0, 1, 0>>)
                 => turn_sequence = <<1, 0, 2, 3>>

C2_Witness ==
    /\ pc = "done"
    /\ conformation_encoding = SPARSE
    /\ Len(main_chain) = 5
    /\ Len(bitstring) >= TargetLength
    /\ turn_sequence = <<1, 0, 2, 3>>

IsScenarioThree ==
    /\ conformation_encoding = DENSE
    /\ Len(main_chain) = 6
    /\ fifth_bead_has_no_sidechain(side_chain)
    /\ Len(bitstring) >= 5
    /\ LastSlice(bitstring, 5) = <<1, 0, 1, 1, 0>>

\* C3 (as claimed): dense, N = 6, no side bead at position 5, shape bits 10110:
\* the decoded turn sequence is (DIR_0, DIR_1, DIR_3, DIR_2, DIR_1).
C3_TurnsAsClaimed ==
    (TurnsDecoded /\ IsScenarioThree) => turn_sequence = <<0, 1, 3, 2, 1>>

\* C3 (amended): dense, N = 6, no side bead at position 5, shape bits 10110:
\* decoding succeeds and the turn sequence is (DIR_1, DIR_0, DIR_1, DIR_3, DIR_1).
C3_TurnsDecoded ==
    /\ (TurnsDecoded /\ IsScenarioThree) => turn_sequence = <<1, 0, 1, 3, 1>>
    /\ (DecodeEnded /\ IsScenarioThree) => pc = "done"

C3_Witness == pc = "done" /\ IsScenarioThree /\ turn_sequence = <<1, 0, 1, 3, 1>>

CoordinatesDecoded == pc \in {"contacts", "done"}

\* the step from coordinate i to coordinate i+1 (0-based), as a vector
StepVector(i) ==
    <<coordinates_3d[i + 2].x - coordinates_3d[i + 1].x,
      coordinates_3d[i + 2].y - coordinates_3d[i + 1].y,
      coordinates_3d[i + 2].z - coordinates_3d[i + 1].z>>

\* C4: in every successfully decoded result coordinate 0 is the origin with index 0
\* and symbol_0, and for every i in 0..N-2, coordinate[i+1] - coordinate[i] =
\* (-1)^i * B[turn[i]] (in units of 1/sqrt(3)), of squared length 3, and
\* coordinate[i+1] carries index i+1 and symbol_{i+1}.
C4_CoordinatesFollowTurns ==
    CoordinatesDecoded =>
        /\ coordinates_3d[1] = [index |-> 0, symbol |-> main_chain[1], x |-> 0, y |-> 0, z |-> 0]
        /\ \A i \in 0..(Len(main_chain) - 2) :
              LET b == << <<-1, 1, 1>>, <<1, 1, -1>>, <<-1, -1, -1>>, <<1, -1, 1>> >>[turn_sequence[i + 1] + 1]
                  sign == IF i % 2 = 0 THEN 1 ELSE -1
                  step == StepVector(i)
              IN  /\ step = <<sign * b[1], sign * b[2], sign * b[3]>>
                  /\ step[1] * step[1] + step[2] * step[2] + step[3] * step[3] = 3
                  /\ coordinates_3d[i + 2].index = i + 1
                  /\ coordinates_3d[i + 2].symbol = main_chain[i + 2]

\* a decoded walk that takes odd steps (sign -1) in all four directions
C4_Witness ==
    /\ pc = "done"
    /\ Len(main_chain) >= 7
    /\ \E i \in 1..Len(turn_sequence) : i % 2 = 0 /\ turn_sequence[i] = 3
    /\ \E i \in 1..Len(turn_sequence) : i % 2 = 0 /\ turn_sequence[i] = 2
    /\ coordinates_3d[Len(coordinates_3d)].index = Len(main_chain) - 1

\* C5: whenever decoding succeeds the turn sequence has exactly N-1 entries, each
\* one of DIR_0..DIR_3, the coordinate list has exactly N entries with indices
\* 0..N-1 in order, and a contact dictionary (bead index -> bead index) is
\* produced with them.
C5_OutputShapes ==
    pc = "done" =>
        /\ Len(turn_sequence) = Len(main_chain) - 1
        /\ \A i \in 1..Len(turn_sequence) : turn_sequence[i] \in TurnDirection
        /\ Len(coordinates_3d) = Len(main_chain)
        /\ \A i \in 1..Len(coordinates_3d) : coordinates_3d[i].index = i - 1
        /\ DOMAIN contacts_found \subseteq 0..(Len(main_chain) - 1)
        /\ \A i \in DOMAIN contacts_found : contacts_found[i] \in 0..(Len(main_chain) - 1)

\* a successful decoding in each encoding, with a contact recorded in the dense one
C5_Witness ==
    /\ pc = "done"
    /\ Len(main_chain) = 7
    /\ conformation_encoding = DENSE
    /\ DOMAIN contacts_found = {0, 1}

\* the pairs the decoder is to visit: i = 0..N-6, j = i+5, i+7, ... < N
VisitedPairs(n) ==
    {p \in (0..(n - 6)) \X (0..(n - 1)) :
        p[2] >= p[1] + 5 /\ (p[2] - p[1] - 5) % 2 = 0}

\* 1-based position of a pair in the lexicographic visiting order
VisitPosition(p, n) ==
    1 + Cardinality({q \in VisitedPairs(n) :
                        q[1] < p[1] \/ (q[1] = p[1] /\ q[2] < p[2])})

\* C6 (as claimed): with one bit consumed per visited pair from the head of the
\* interaction prefix (the bitstring without its last L bits), the contact
\* dictionary records i -> j for exactly the visited pairs whose bit is 1.
C6_ContactsAreTheSetBits ==
    pc = "done" =>
        LET interaction == ButLastSlice(bitstring, TargetLength)
            n == Len(main_chain)
        IN  {<<i, contacts_found[i]>> : i \in DOMAIN contacts_found}
              = {p \in VisitedPairs(n) :
                    /\ VisitPosition(p, n) <= Len(interaction)
                    /\ interaction[VisitPosition(p, n)] = 1}

\* C6 for chains with at most one visited pair per lower bead (N <= 7), where a
\* dictionary keyed by the lower bead loses nothing
C6_ContactsAreTheSetBitsShortChains ==
    (pc = "done" /\ Len(main_chain) <= 7) =>
        LET interaction == ButLastSlice(bitstring, TargetLength)
            n == Len(main_chain)
        IN  {<<i, contacts_found[i]>> : i \in DOMAIN contacts_found}
              = {p \in VisitedPairs(n) :
                    /\ VisitPosition(p, n) <= Len(interaction)
                    /\ interaction[VisitPosition(p, n)] = 1}

ContactPairs == DOMAIN main_main_contacts

\* C7: for every protein of main-chain length N >= 5 the finished contact map has
\* an entry for (i, j) iff 0 <= i < j <= N-1, i and j have opposite parity and
\* j - i >= 5; contacts_detected equals the number of entries.
C7_ContactMapEntries ==
    cm_pc = "done" =>
        LET n == Len(main_chain)
        IN  /\ ContactPairs =
                 {p \in (0..(n - 1)) \X (0..(n - 1)) :
                     p[1] < p[2] /\ p[1] % 2 # p[2] % 2 /\ p[2] - p[1] >= 5}
            /\ contacts_detected = Cardinality(ContactPairs)

\* a finished map holding a pair five apart and a pair seven apart
C7_Witness ==
    /\ cm_pc = "done"
    /\ Len(main_chain) = 8
    /\ <<0, 7>> \in ContactPairs
    /\ <<2, 7>> \in ContactPairs
    /\ contacts_detected = 4

\* C8 (as claimed): for main-chain length N < 7 (N = 5 or N = 6) the contact map
\* has no entries.
C8_EmptyBelowSeven ==
    (cm_pc = "done" /\ Len(main_chain) < 7) => ContactPairs = {}

\* C8 (amended): for main-chain length N < 6 (N = 5) the contact map has no
\* entries, at any point of its construction; for N = 6 it holds the pair (0,5).
C8_EmptyBelowSix ==
    /\ Len(main_chain) < 6 => (ContactPairs = {} /\ contacts_detected = 0)
    /\ (cm_pc = "done" /\ Len(main_chain) = 6) => ContactPairs = {<<0, 5>>}

C8_Witness == cm_pc = "done" /\ Len(main_chain) = 5 /\ ContactPairs = {}

\* C9 (as claimed): for main-chain length N = 7 the contact map contains exactly
\* one entry, the pair (0,5), and no other.
C9_OnlyZeroFive ==
    (cm_pc = "done" /\ Len(main_chain) = 7) => ContactPairs = {<<0, 5>>}

\* C9 (amended): for main-chain length N = 7 the contact map contains exactly two
\* entries, the pairs (0,5) and (1,6), and no other.
C9_ZeroFiveAndOneSix ==
    (cm_pc = "done" /\ Len(main_chain) = 7) =>
        (ContactPairs = {<<0, 5>>, <<1, 6>>} /\ contacts_detected = 2)

C9_Witness ==
    cm_pc = "done" /\ Len(main_chain) = 7 /\ <<1, 6>> \in ContactPairs

\* C10: fix_qubits is idempotent: for every operator (one term or several, any
\* qubit count, Z and X masks arbitrary) and each value of
\* has_side_chain_second_bead, fix_qubits(fix_qubits(p)) equals fix_qubits(p).
C10_FixQubitsIdempotent ==
    Len(fixed) = 2 => fixed[2] = fixed[1]

\* a two-term operator on seven wires whose first fixing flipped the signs of the
\* Z factors on wires 1 and 5 and cleared them
C10_Witness ==
    /\ Len(fixed) = 2
    /\ ~has_side_chain_second_bead
    /\ operator.num_qubits = 7
    /\ Len(operator.terms) = 2
    /\ operator.terms[1].z = {1}
    /\ operator.terms[2].z = {1, 5}
    /\ operator.terms[1].x # operator.terms[2].x
    /\ fixed[1].terms[1].coeff = RatNeg(operator.terms[1].coeff)
    /\ fixed[1].terms[2].coeff = operator.terms[2].coeff
    /\ fixed[1].terms[1].z = {}

Returned == outcome.status = "returned"

SumCompared == called = "fix_sum" /\ Returned
ScaledCompared == called = "fix_scaled" /\ Returned

\* equality of two operators compared after simplify
EqualAfterSimplify(a, b) == OpEquals(simplify(a), simplify(b))

\* C11 (as claimed): for all operators p, q on the same qubit count (each with
\* one or more terms) and every scalar s, fix_qubits(p + q) = fix_qubits(p) +
\* fix_qubits(q) and fix_qubits(s*p) = s*fix_qubits(p), compared after simplify.
C11_CommutesWithAddAndScalarMul ==
    /\ SumCompared => EqualAfterSimplify(outcome.of_sum, outcome.sum_of)
    /\ ScaledCompared => EqualAfterSimplify(outcome.of_scaled, outcome.scaled_of)

\* a single-term operator on which the sign rules would change nothing
NoSignRuleApplies(op, has_side) ==
    calc_updated_coeffs(op.terms[1].z, op.num_qubits, op.terms[1].coeff, has_side)
        = op.terms[1].coeff

\* C11 (amended): fix_qubits(s*p) = s*fix_qubits(p) for every operator p and
\* scalar s; fix_qubits(p + q) = fix_qubits(p) + fix_qubits(q) for all p, q on
\* the same qubit count when each of p and q has two or more terms or is a
\* single term whose Z bits trigger no sign rule (the single-term branch skips the
\* negation that the branch taken by p + q applies); compared after simplify.
C11_CommutesOutsideSingleTermBranch ==
    /\ (SumCompared
          /\ (Len(operator.terms) >= 2
                \/ NoSignRuleApplies(operator, has_side_chain_second_bead))
          /\ (Len(q_operator.terms) >= 2
                \/ NoSignRuleApplies(q_operator, has_side_chain_second_bead)))
          => EqualAfterSimplify(outcome.of_sum, outcome.sum_of)
    /\ ScaledCompared => EqualAfterSimplify(outcome.of_scaled, outcome.scaled_of)

\* two two-term operators on seven wires, Z factors on wires 1 and 5 among them,
\* whose fixed sum carries a negated coefficient
C11_Witness ==
    /\ SumCompared
    /\ operator.num_qubits = 7
    /\ ~has_side_chain_second_bead
    /\ Len(operator.terms) = 2
    /\ Len(q_operator.terms) = 2
    /\ operator.terms[1].z = {1}
    /\ operator.terms[1].coeff = RatOne
    /\ operator.terms[2].z = {}
    /\ operator.terms[2].coeff = RatOne
    /\ q_operator.terms[1].z = {5}
    /\ q_operator.terms[2].z = {5}
    /\ simplify(outcome.sum_of) = Op(7, <<Term({}, {}, <<-2, 1>>)>>)

\* a single Z on wire 1 of a 6-qubit operator, coefficient +1
IsScenarioFive == operator = Op(6, <<Term({1}, {}, RatOne)>>)

\* C12 (as claimed): for p = a single Z on wire 1 of a 6-qubit operator
\* (coefficient +1), fix_qubits(p) is -I on 6 qubits.
C12_MinusIdentity ==
    (IsScenarioFive /\ Len(fixed) >= 1)
        => fixed[1] = Op(6, <<Term({}, {}, <<-1, 1>>)>>)

\* C12 (amended): for p = a single Z on wire 1 of a 6-qubit operator (coefficient
\* +1), fix_qubits(p) is +I on 6 qubits: the Z bit is cleared and, p having one
\* term, the coefficient is not negated.
C12_PlusIdentity ==
    (IsScenarioFive /\ Len(fixed) >= 1)
        => fixed[1] = Op(6, <<Term({}, {}, <<1, 1>>)>>)

C12_Witness ==
    /\ IsScenarioFive
    /\ ~has_side_chain_second_bead
    /\ Len(fixed) = 1
    /\ fixed[1].terms[1].z = {}

\* wires on which every term of op has both its Z bit and its X bit zero
IdleWires(op) ==
    {k \in 0..(op.num_qubits - 1) :
        \A i \in 1..Len(op.terms) : k \notin op.terms[i].z /\ k \notin op.terms[i].x}

FoundUnused == called = "find_unused_qubits" /\ Returned

\* C13 (as claimed): find_unused_qubits(p) returns, in ascending order, exactly
\* the wires k for which both the Z bit and the X bit at k are zero in every term
\* of p; a single Z on wire 2 of 5 qubits gives [0,1,3,4] and 'ZI' gives [0].
C13_UnusedWiresZAndX ==
    FoundUnused =>
        /\ outcome.value = Ascending(IdleWires(operator))
        /\ operator = Op(5, <<Term({2}, {}, RatOne)>>) => outcome.value = <<0, 1, 3, 4>>
        /\ operator = Op(2, <<Term({1}, {}, RatOne)>>) => outcome.value = <<0>>

\* C13 for operators without X bits, where the Z bits alone decide
C13_UnusedWiresOfZOperators ==
    (FoundUnused /\ \A i \in 1..Len(operator.terms) : operator.terms[i].x = {}) =>
        /\ outcome.value = Ascending(IdleWires(operator))
        /\ operator = Op(5, <<Term({2}, {}, RatOne)>>) => outcome.value = <<0, 1, 3, 4>>
        /\ operator = Op(2, <<Term({1}, {}, RatOne)>>) => outcome.value = <<0>>

RemovedFromTensor == called = "remove_unused_of_tensor" /\ outcome # Pending

\* C14 (as claimed): for every operator p and every k >= 0,
\* remove_unused_qubits(p tensor identity(k)) simplified equals p simplified.
C14_RemovesOnlyThePadding ==
    RemovedFromTensor => (Returned /\ EqualAfterSimplify(outcome.value, operator))

\* C14 for operators that carry a Z bit on every wire in some term, the wires
\* np.any(op.paulis.z, axis=0) counts as used
C14_RemovesOnlyThePaddingWhenZOnEveryWire ==
    (RemovedFromTensor /\ used_mask(operator) = 0..(operator.num_qubits - 1))
        => (Returned /\ EqualAfterSimplify(outcome.value, operator))

\* p with the columns of the given wires deleted from Z and X, the other wires in
\* their original relative order, every coefficient unchanged
ColumnsDeleted(op, wires) ==
    LET kept == (0..(op.num_qubits - 1)) \ wires
        renumbered(bits) == {Cardinality({v \in kept : v < w}) : w \in bits \cap kept}
    IN  Op(op.num_qubits - Cardinality(wires),
           [i \in 1..Len(op.terms) |->
               Term(renumbered(op.terms[i].z), renumbered(op.terms[i].x), op.terms[i].coeff)])

Removed == called = "remove_unused_qubits" /\ outcome # Pending

\* C15 (as claimed): remove_unused_qubits(p) returns an operator on n - |unused|
\* qubits whose terms are those of p with the unused wires' columns deleted from Z
\* and X, the kept wires in their original relative order and every coefficient
\* unchanged (compared as simplified operators); {IZII: 1.0, IIII: 0.5} becomes
\* {Z: 1.0, I: 0.5}.
C15_ProjectsOutUnusedWires ==
    Removed =>
        /\ Returned
        /\ outcome.value.num_qubits = operator.num_qubits - Cardinality(IdleWires(operator))
        /\ EqualAfterSimplify(outcome.value, ColumnsDeleted(operator, IdleWires(operator)))
        /\ operator = Op(4, <<Term({2}, {}, <<1, 1>>), Term({}, {}, <<1, 2>>)>>)
              => outcome.value = Op(1, <<Term({0}, {}, <<1, 1>>), Term({}, {}, <<1, 2>>)>>)

\* C15 for operators without X bits that carry a Z on some wire
C15_ProjectsOutUnusedWiresOfZOperators ==
    (Removed /\ used_mask(operator) # {}
        /\ \A i \in 1..Len(operator.terms) : operator.terms[i].x = {}) =>
        /\ Returned
        /\ outcome.value.num_qubits = operator.num_qubits - Cardinality(IdleWires(operator))
        /\ EqualAfterSimplify(outcome.value, ColumnsDeleted(operator, IdleWires(operator)))
        /\ operator = Op(4, <<Term({2}, {}, <<1, 1>>), Term({}, {}, <<1, 2>>)>>)
              => outcome.value = Op(1, <<Term({0}, {}, <<1, 1>>), Term({}, {}, <<1, 2>>)>>)

Padded == called = "pad_to_n_qubits" /\ outcome # Pending

\* C16: for every operator p on n qubits and every m >= n, pad_to_n_qubits(p, m)
\* is identity(m - n) tensor p: an operator on m qubits whose terms are the
\* terms of p on their own wire indices with their coefficients (the added
\* wires, n .. m-1, carry neither Z nor X), and for m = n it is p itself;
\* 'ZI' padded to 4 is 'IIZI'.
C16_PadsOnTheHighSide ==
    (Padded /\ target >= operator.num_qubits) =>
        /\ Returned
        /\ outcome.value = Op(target, operator.terms)
        /\ operator = Op(2, <<Term({1}, {}, RatOne)>>) /\ target = 4
              => outcome.value = Op(4, <<Term({1}, {}, RatOne)>>)

\* a padding by at least one wire of an operator with Z or X on its top wire
C16_Witness ==
    /\ Padded
    /\ Returned
    /\ target > operator.num_qubits
    /\ \E i \in 1..Len(operator.terms) :
          (operator.num_qubits - 1) \in (operator.terms[i].z \cup operator.terms[i].x)

\* C17: pad_to_n_qubits(p, m) with m below p's qubit count fails with the
\* operator-shape error (InvalidOperatorError) and returns no operator.
C17_PadToSmallerWidthFails ==
    (Padded /\ target < operator.num_qubits) =>
        /\ outcome.status = "raised"
        /\ outcome.error = "InvalidOperatorError"

\* the bead's four turn functions have been read
HasTurnFuncs ==
    called = "turn_funcs" /\ outcome # Pending /\ outcome.value # NoTurnFuncs

TurnRegister == num_turn_qubits(Len(main_chain), conformation_encoding)
TurnSum ==
    simplify(op_add(op_add(op_add(outcome.value[1], outcome.value[2]),
                           outcome.value[3]), outcome.value[4]))
TurnProduct(a, b) == simplify(op_compose(outcome.value[a + 1], outcome.value[b + 1]))
ZeroOp(n) == Op(n, <<Term({}, {}, RatZero)>>)
\* wire of the bead's turn qubit for direction a in the sparse encoding
SparseWire(a) == QUBITS_PER_TURN(SPARSE) * bead_index + a

\* C18 as claimed: for every bead with turn functions, in both encodings,
\* t_0 + t_1 + t_2 + t_3 simplifies to the identity on the turn register.
C18_TurnsSumToIdentity ==
    HasTurnFuncs => TurnSum = build_identity_op(TurnRegister, IDENTITY_OP_COEFF)

\* C18: for every bead with turn functions, t_0 + t_1 + t_2 + t_3 simplifies to
\* the identity on the turn register in the dense encoding; in the sparse
\* encoding it simplifies to 2 I - 1/2 (Z_0 + Z_1 + Z_2 + Z_3) over the
\* bead's four turn qubits.
C18_TurnsSumToIdentityWhenDense ==
    HasTurnFuncs =>
        IF conformation_encoding = DENSE
        THEN TurnSum = build_identity_op(TurnRegister, IDENTITY_OP_COEFF)
        ELSE /\ TurnSum.num_qubits = TurnRegister
             /\ TermSet(TurnSum) =
                   {Term({}, {}, <<2, 1>>)}
                     \cup {Term({SparseWire(a)}, {}, <<-1, 2>>) : a \in 0..3}

C18_Witness == HasTurnFuncs /\ conformation_encoding = DENSE /\ bead_index > 0

\* C19 as claimed: for every bead with turn functions and every two different
\* directions a, b, in both encodings, t_a t_b simplifies to the zero operator.
C19_DifferentTurnsMultiplyToZero ==
    HasTurnFuncs =>
        \A a, b \in 0..3 : a # b => TurnProduct(a, b) = ZeroOp(TurnRegister)

\* C19: for every bead with turn functions and every two different directions
\* a, b, t_a t_b simplifies to the zero operator in the dense encoding; in the
\* sparse encoding it simplifies to 1/4 (I - Z_a - Z_b + Z_a Z_b) over the
\* turn qubits of the two directions, which is not zero.
C19_DifferentTurnsMultiplyToZeroWhenDense ==
    HasTurnFuncs =>
        \A a, b \in 0..3 : a # b =>
            IF conformation_encoding = DENSE
            THEN TurnProduct(a, b) = ZeroOp(TurnRegister)
            ELSE /\ TurnProduct(a, b).num_qubits = TurnRegister
                 /\ TermSet(TurnProduct(a, b)) =
                       {Term({}, {}, <<1, 4>>),
                        Term({SparseWire(a)}, {}, <<-1, 4>>),
                        Term({SparseWire(b)}, {}, <<-1, 4>>),
                        Term({SparseWire(a), SparseWire(b)}, {}, <<1, 4>>)}

C19_Witness ==
    /\ HasTurnFuncs
    /\ conformation_encoding = DENSE
    /\ bead_index = Len(main_chain) - 2
    /\ TurnProduct(1, 3) = ZeroOp(TurnRegister)

Constructed == called = "Protein" /\ outcome # Pending
RaisedError(exception) == outcome.status = "raised" /\ outcome.error = exception
LengthsDiffer == Len(main_protein_sequence) # Len(side_protein_sequence)
MainTooShort == Len(main_protein_sequence) < MIN_CHAIN_LENGTH
HasUnsupportedSymbol ==
    \/ \E i \in 1..Len(main_protein_sequence) : main_protein_sequence[i] \notin valid_symbols
    \/ \E i \in 1..Len(side_protein_sequence) :
          /\ side_protein_sequence[i] # EMPTY_SIDECHAIN_PLACEHOLDER
          /\ side_protein_sequence[i] \notin valid_symbols
NothingCreated == main_chain = <<>> /\ side_chain = <<>>

\* C20 as claimed: the construction fails with ChainLengthError whenever the
\* sequences differ in length or the main sequence has fewer than 5 residues,
\* and with UnsupportedAminoAcidSymbolError whenever a main symbol or a
\* non-placeholder side symbol is not in valid_symbols; no chain is created in
\* these cases.
C20_ValidationErrors ==
    Constructed =>
        /\ (LengthsDiffer \/ MainTooShort) => (RaisedError("ChainLengthError") /\ NothingCreated)
        /\ HasUnsupportedSymbol =>
              (RaisedError("UnsupportedAminoAcidSymbolError") /\ NothingCreated)

\* C20: the construction fails with UnsupportedAminoAcidSymbolError whenever a
\* main symbol or a non-placeholder side symbol is not in valid_symbols, whatever
\* the lengths are; it fails with ChainLengthError whenever every such symbol
\* is valid and the sequences differ in length or the main sequence has fewer
\* than 5 residues; in both cases no chain is created.
C20_ValidationErrorsSymbolsFirst ==
    Constructed =>
        /\ HasUnsupportedSymbol =>
              (RaisedError("UnsupportedAminoAcidSymbolError") /\ NothingCreated)
        /\ (~HasUnsupportedSymbol /\ (LengthsDiffer \/ MainTooShort)) =>
              (RaisedError("ChainLengthError") /\ NothingCreated)

\* a construction from sequences of different lengths, one holding an
\* unsupported symbol
C20_Witness ==
    /\ Constructed
    /\ LengthsDiffer
    /\ HasUnsupportedSymbol
    /\ RaisedError("UnsupportedAminoAcidSymbolError")

\* the coefficient an operator gives to the Pauli string (z, x): the sum over
\* the terms that carry it
CoeffOf(op, z, x) ==
    RatSumOver(op.terms, {i \in 1..Len(op.terms) : op.terms[i].z = z /\ op.terms[i].x = x})
Strings(op) == {<<op.terms[i].z, op.terms[i].x>> : i \in 1..Len(op.terms)}
NoStringTwice(op) ==
    \A i, j \in 1..Len(op.terms) :
        (op.terms[i].z = op.terms[j].z /\ op.terms[i].x = op.terms[j].x) => i = j

FixedOnce == Len(fixed) >= 1
\* Z1 -> -1, and Z5 -> -1 on tables wider than six
Substituted(t, n) ==
    Term(t.z \ {0, 1, 2, 3, 5}, t.x,
         LET c1 == IF 1 \in t.z THEN RatNeg(t.coeff) ELSE t.coeff
         IN  IF 5 \in t.z /\ n > 6 THEN RatNeg(c1) ELSE c1)

\* C23: for an operator of two or more terms and has_side_chain_second_bead =
\* false, fix_qubits maps every term (Z, X, c) to (Z without the bits 0, 1, 2, 3,
\* 5, X, c negated once if Z bit 1 is set and once more if Z bit 5 is set and the
\* width is above 6) and coalesces equal terms: the result is on the same
\* wires, holds no Pauli string twice, and gives every string the sum of the
\* coefficients of the mapped terms that carry it.
C23_MultiTermSubstitution ==
    (FixedOnce /\ Len(operator.terms) >= 2 /\ ~has_side_chain_second_bead) =>
        LET n == operator.num_qubits
            mapped == Op(n, [i \in 1..Len(operator.terms) |-> Substituted(operator.terms[i], n)])
        IN  /\ fixed[1].num_qubits = n
            /\ NoStringTwice(fixed[1])
            /\ \A s \in Strings(mapped) \cup Strings(fixed[1]) :
                  CoeffOf(fixed[1], s[1], s[2]) = CoeffOf(mapped, s[1], s[2])

\* two terms that differ in X, one with Z on wires 1 and 5 of seven wires (two
\* sign changes), one with Z on wire 1 (one sign change)
C23_Witness ==
    /\ FixedOnce
    /\ ~has_side_chain_second_bead
    /\ operator.num_qubits = 7
    /\ Len(operator.terms) = 2
    /\ operator.terms[1].z = {1, 5}
    /\ operator.terms[2].z = {1}
    /\ operator.terms[1].x # operator.terms[2].x
    /\ fixed[1].terms[1].coeff = operator.terms[1].coeff
    /\ fixed[1].terms[2].coeff = RatNeg(operator.terms[2].coeff)

\* C24: for an operator of exactly one term, fix_qubits clears the Z bits 0, 1,
\* 2, 3, 5 (where they exist) and leaves the coefficient, the X mask and the
\* qubit count unchanged, also when Z bit 1 or Z bit 5 is set.
C24_SingleTermOnlyCleared ==
    (FixedOnce /\ Len(operator.terms) = 1) =>
        fixed[1] = Op(operator.num_qubits,
                      <<Term(operator.terms[1].z \ {0, 1, 2, 3, 5},
                             operator.terms[1].x, operator.terms[1].coeff)>>)

C24_Witness ==
    /\ FixedOnce
    /\ ~has_side_chain_second_bead
    /\ Len(operator.terms) = 1
    /\ operator.num_qubits = 7
    /\ operator.terms[1].z = {1, 5}
    /\ fixed[1].terms[1].z = {}
    /\ fixed[1].terms[1].coeff = operator.terms[1].coeff

\* C25: with has_side_chain_second_bead = true, fix_qubits leaves Z bit 5 of
\* every term as it is, clears only the bits 0, 1, 2, 3, and changes no sign
\* for bit 5.
C25_SideBeadKeepsWireFive ==
    (FixedOnce /\ has_side_chain_second_bead) =>
        LET n == operator.num_qubits
            kept == Op(n, [i \in 1..Len(operator.terms) |->
                             Term(operator.terms[i].z \ {0, 1, 2, 3}, operator.terms[i].x,
                                  IF Len(operator.terms) >= 2 /\ 1 \in operator.terms[i].z
                                  THEN RatNeg(operator.terms[i].coeff)
                                  ELSE operator.terms[i].coeff)])
        IN  /\ fixed[1].num_qubits = n
            /\ \A s \in Strings(kept) \cup Strings(fixed[1]) :
                  CoeffOf(fixed[1], s[1], s[2]) = CoeffOf(kept, s[1], s[2])

\* bits a complete measurement holds: one per visited pair, then the shape
ExpectedBits == Cardinality(VisitedPairs(Len(main_chain))) + TargetLength
ShortMeasurement ==
    best_measurement.present /\ Len(best_measurement.bitstring) < ExpectedBits

\* C22: decoding a best-measurement record whose bitstring is empty or holds
\* fewer bits than the number of interaction pairs plus the shape length L
\* fails with the invalid-result error (ValueError), and no turn sequence,
\* coordinates or contacts are produced from it.
C22_ShortBitstringRejected ==
    (ShortMeasurement /\ DecodeEnded) =>
        /\ pc = "failed"
        /\ error = "ValueError"
        /\ turn_sequence = <<>>
        /\ coordinates_3d = <<>>
        /\ contacts_found = <<>>

\* C27: for every N >= 5 with an all-placeholder side chain, in each encoding,
\* the number of turn-register wires that fix_qubits does not fix equals the
\* decoder's shape length L (QUBITS_PER_TURN * (N - 3), minus 1 in the dense
\* encoding): the shape suffix holds one bit per free turn wire.
C27_OneShapeBitPerFreeWire ==
    AllPlaceholders(side_chain) =>
        Cardinality(FreeWires(num_turn_qubits(Len(main_chain), conformation_encoding), FALSE))
            = TargetLength

\* C27 in the dense encoding, where the count holds
C27_OneShapeBitPerFreeWireDense ==
    (AllPlaceholders(side_chain) /\ conformation_encoding = DENSE) =>
        Cardinality(FreeWires(num_turn_qubits(Len(main_chain), conformation_encoding), FALSE))
            = TargetLength

ContactMapBuilt == cm_pc = "done"
ListedPairs(list) == {list[k] : k \in 1..Len(list)}

\* C29: for every N >= 5 the pairs (i, j) for which _build_backbone_contact_term
\* reads main_main_contacts[i][j] are exactly the entries of the contact map,
\* and they are, in the same order, the pairs the decoder visits for
\* interaction bits.
C29_BuilderReadsTheContactMapEntries ==
    ContactMapBuilt =>
        /\ ListedPairs(backbone_pairs(Len(main_chain))) = ContactPairs
        /\ backbone_pairs(Len(main_chain)) = decoder_pairs(Len(main_chain))

C29_Witness ==
    /\ ContactMapBuilt
    /\ Len(backbone_pairs(Len(main_chain))) >= 4
    /\ <<0, 7>> \in ContactPairs

\* wires on which some term of op carries Z
ZWires(op) == UNION {op.terms[i].z : i \in 1..Len(op.terms)}
\* a contact operator above the turn register, as contact ^ neighbour term
\* places it
AboveTurnRegister(contact) ==
    op_tensor(contact, bead_full_identity(Len(main_chain), conformation_encoding))

\* C30: for every N >= 5 the contact wires i*(N-1)+j of distinct contact-map
\* pairs are distinct and lie in 0..(N-1)^2-1; in the combined register they
\* sit at positions >= QUBITS_PER_TURN*(N-1), and fix_qubits clears and
\* sign-flips none of them.
C30_ContactWiresAboveTurnRegister ==
    ContactMapBuilt =>
        LET n == Len(main_chain)
            turn_wires == num_turn_qubits(n, conformation_encoding)
        IN  /\ \A p \in ContactPairs :
                  /\ ZWires(main_main_contacts[p]) = {p[1] * (n - 1) + p[2]}
                  /\ ZWires(main_main_contacts[p]) \subseteq 0..((n - 1) * (n - 1) - 1)
                  /\ \A w \in ZWires(AboveTurnRegister(main_main_contacts[p])) :
                        w >= turn_wires
                  /\ \A has_side \in BOOLEAN :
                        OpEquals(fix_qubits(AboveTurnRegister(main_main_contacts[p]), has_side),
                                 AboveTurnRegister(main_main_contacts[p]))
            /\ \A p, q \in ContactPairs :
                  p # q => ZWires(main_main_contacts[p]) # ZWires(main_main_contacts[q])

C30_Witness ==
    /\ ContactMapBuilt
    /\ <<0, 5>> \in ContactPairs
    /\ <<1, 6>> \in ContactPairs
    /\ 5 \in ZWires(main_main_contacts[<<0, 5>>])

(***************************************************************************)
(* The Hamiltonian of a protein without side beads                         *)
(***************************************************************************)
BacktrackBuilt == build_pc \in {"sum", "compress", "done"}
Compressed == build_pc = "done"

\* the assignments of a dense turn register of n wires with wire 1 = 1, wire 5 = 1
\* and wires 0, 2, 3 = 0
DenseRegisters(n) ==
    {[w \in 0..(n - 1) |->
         IF w \in {1, 5} THEN 1 ELSE IF w \in {0, 2, 3} THEN 0 ELSE free[w]] :
        free \in [(0..(n - 1)) \ {0, 1, 2, 3, 5} -> {0, 1}]}

\* the indices i in 1..N-3 whose bead has the same two turn bits as bead i+1
RepeatedTurns(register, chain_len) ==
    {i \in 1..(chain_len - 3) :
        /\ register[2 * i] = register[2 * i + 2]
        /\ register[2 * i + 1] = register[2 * i + 3]}

\* C28: in dense encoding, on every assignment of the turn wires with wire 1 = 1,
\* wire 5 = 1 and wires 0, 2, 3 = 0, the backtracking term evaluates to 10 times
\* the number of i in 1..N-3 with turn[i] = turn[i+1], so it is 0 exactly when no
\* two consecutive turns among beads 1..N-2 are the same.
C28_BacktrackingPenaltyCountsRepeats ==
    (BacktrackBuilt /\ conformation_encoding = DENSE) =>
        \A register \in DenseRegisters(num_turn_qubits(Len(main_chain), DENSE)) :
            LET repeats == Cardinality(RepeatedTurns(register, Len(main_chain)))
            IN  /\ EvalOp(h_backtrack, register) = <<10 * repeats, 1>>
                /\ (EvalOp(h_backtrack, register) = RatZero) <=> (repeats = 0)

\* a chain of seven beads whose free turn wires are all 0: beads 3, 4 and 5 hold
\* the same turn, two repeats, and the term is worth 20
C28_Witness ==
    /\ BacktrackBuilt
    /\ conformation_encoding = DENSE
    /\ Len(main_chain) = 7
    /\ LET register == [w \in 0..11 |-> IF w \in {1, 5} THEN 1 ELSE 0]
       IN  /\ register \in DenseRegisters(12)
           /\ RepeatedTurns(register, 7) = {3, 4}
           /\ EvalOp(h_backtrack, register) = <<20, 1>>

\* the scenario protein APRLR / _____ in dense encoding, built and compressed
ScenarioCompressed ==
    /\ Compressed
    /\ conformation_encoding = DENSE
    /\ main_chain = <<"A", "P", "R", "L", "R">>
    /\ AllPlaceholders(side_chain)

\* C21 (as claimed): for APRLR / _____ in dense encoding the compressed
\* Hamiltonian has 0 qubits: no turn wire is used and the operator is a constant.
C21_CompressedToNoQubits ==
    ScenarioCompressed =>
        /\ compressed_h.num_qubits = 0
        /\ used_mask(hamiltonian) = {}
        /\ \A k \in 1..Len(compressed_h.terms) : compressed_h.terms[k].z = {}

\* C21 (amended): for APRLR / _____ in dense encoding the compressed Hamiltonian
\* has 3 qubits: the sum uses exactly the turn wires 4, 6 and 7 (the free wire of
\* bead 2 and the two wires of bead 3), and it is not a constant.
C21_CompressedToThreeQubits ==
    ScenarioCompressed =>
        /\ compressed_h.num_qubits = 3
        /\ used_mask(hamiltonian) = {4, 6, 7}
        /\ used_mask(compressed_h) = {0, 1, 2}

C21_Witness ==
    /\ ScenarioCompressed
    /\ hamiltonian.num_qubits = 24
    /\ compressed_h.num_qubits = 3

\* the wire of the contact qubit of pair p in the Hamiltonian: contact-register
\* wire i*(N-1)+j, above the turn register
ContactWire(p) ==
    num_turn_qubits(Len(main_chain), conformation_encoding)
        + p[1] * (Len(main_chain) - 1) + p[2]

\* the compressed qubit a used wire becomes: its rank among the used wires
CompressedQubit(w) == Cardinality({v \in used_mask(hamiltonian) : v < w})

\* the measurement of the compressed register in which exactly the contact qubits
\* of the pairs in "on" are 1 and every turn qubit holds "turn_bit": the character
\* at distance k from the right end is the value of compressed qubit k
MeasuredContacts(on, turn_bit) ==
    LET width == compressed_h.num_qubits
        contact_qubits == {CompressedQubit(ContactWire(p)) :
                              p \in VisitedPairs(Len(main_chain))}
        on_qubits == {CompressedQubit(ContactWire(p)) : p \in on}
    IN  [pos \in 1..width |->
            IF (width - pos) \in contact_qubits
            THEN (IF (width - pos) \in on_qubits THEN 1 ELSE 0)
            ELSE turn_bit]

\* the pairs a contact dictionary reports
Reported(contacts) == {<<i, contacts[i]>> : i \in DOMAIN contacts}

\* sets of visited pairs with at most one pair per lower bead
ContactChoices(n) ==
    {on \in SUBSET VisitedPairs(n) : \A p, q \in on : p[1] = q[1] => p = q}

\* C26: for every chain with at least one contact pair, every contact qubit is a
\* used wire of the Hamiltonian, and on every measurement of the compressed
\* register the decoder reports the contact (i, j) exactly when the contact qubit
\* of (i, j) is 1 (checked for every choice of contact qubits with one pair per
\* lower bead, all turn qubits 0 or all 1).
C26_DecoderReadsThePairsOwnQubit ==
    (Compressed /\ VisitedPairs(Len(main_chain)) # {}) =>
        /\ \A p \in VisitedPairs(Len(main_chain)) : ContactWire(p) \in used_mask(hamiltonian)
        /\ \A on \in ContactChoices(Len(main_chain)) : \A turn_bit \in {0, 1} :
              Reported(find_main_main_contacts(MeasuredContacts(on, turn_bit),
                                               conformation_encoding, main_chain,
                                               side_chain)) = on

\* the same for chains with exactly one contact pair (six beads), where it holds
C26_DecoderReadsTheOnlyPairsQubit ==
    (Compressed /\ Cardinality(VisitedPairs(Len(main_chain))) = 1) =>
        /\ \A p \in VisitedPairs(Len(main_chain)) : ContactWire(p) \in used_mask(hamiltonian)
        /\ \A on \in ContactChoices(Len(main_chain)) : \A turn_bit \in {0, 1} :
              Reported(find_main_main_contacts(MeasuredContacts(on, turn_bit),
                                               conformation_encoding, main_chain,
                                               side_chain)) = on

\* every contact qubit is a used wire, in dense encoding the compressed register
\* is the contact qubits above L turn qubits
C26_ContactQubitsAboveShapeBits ==
    Compressed =>
        /\ \A p \in VisitedPairs(Len(main_chain)) : ContactWire(p) \in used_mask(hamiltonian)
        /\ conformation_encoding = DENSE =>
              compressed_h.num_qubits = Cardinality(VisitedPairs(Len(main_chain))) + TargetLength
====
